---------------------------- MODULE Spec2Model ----------------------------
(***************************************************************************)
(* A model of the dynamic query construction engine of iesitalia/toolbox:  *)
(* the filter grammar parser and condition mapper (rest, filterRegEx and   *)
(* filterMapper), the orchestrators Context.ApplyFilters and               *)
(* Context.FindByPrimaryKey, the relation graph walker getAssociations,    *)
(* the query builder query.Query and the list view FilterView.GetData.     *)
(*                                                                         *)
(* A Go string is a sequence of one-character TLA+ strings, so that the    *)
(* byte-level operations of the code (regular expressions, Split, Trim,    *)
(* percent decoding) are computed and not assumed.                         *)
(***************************************************************************)
EXTENDS Integers, Sequences, FiniteSets, TLC

VARIABLES
  graph,   \* the schema registry: table name -> schema
  walk,    \* the running getAssociations call: its stack, loaded[0], result
  req,     \* the request a handler of the rest package serves
  view,    \* the FilterView of the object the request is about
  fres,    \* what that handler ended with
  builder, \* a Query of package query under construction
  out,     \* the statements rendered from it since it was last changed
  parsed,  \* the predicates parsed from the filter string of the request
  object   \* the object of a CRUD request: its hooks, and what its calls give

(***************************************************************************)
(* Characters and the string functions of the Go library the code calls.   *)
(***************************************************************************)
Lower ==
  {"a","b","c","d","e","f","g","h","i","j","k","l","m",
   "n","o","p","q","r","s","t","u","v","w","x","y","z"}

Upper ==
  {"A","B","C","D","E","F","G","H","I","J","K","L","M",
   "N","O","P","Q","R","S","T","U","V","W","X","Y","Z"}

Digit == {"0","1","2","3","4","5","6","7","8","9"}

Letter == Lower \cup Upper

\* \s of Go's regexp: [\t\n\f\r ]
Space == {" ", "\t", "\n", "\f", "\r"}

\* The backquote character (a string of the module cannot hold it).
BackQuote == "<backquote>"

\* The printable ASCII characters, code 32 to 126, in code order.
Printable ==
  <<" ","!","\"","#","$","%","&","'","(",")","*","+",",","-",".","/",
    "0","1","2","3","4","5","6","7","8","9",":",";","<","=",">","?",
    "@","A","B","C","D","E","F","G","H","I","J","K","L","M","N","O",
    "P","Q","R","S","T","U","V","W","X","Y","Z","[","\\","]","^","_",
    BackQuote,"a","b","c","d","e","f","g","h","i","j","k","l","m","n","o",
    "p","q","r","s","t","u","v","w","x","y","z","{","|","}","~">>

\* The character of a byte value; a byte outside the printable range is one
\* opaque character.
Chr(n) == IF n \in 32..126 THEN Printable[n - 31] ELSE "<byte>"

HexLower == <<"0","1","2","3","4","5","6","7","8","9","a","b","c","d","e","f">>

HexUpper == <<"0","1","2","3","4","5","6","7","8","9","A","B","C","D","E","F">>

IsHex(c) == \E n \in 1..16 : c = HexLower[n] \/ c = HexUpper[n]

HexVal(c) == (CHOOSE n \in 1..16 : c = HexLower[n] \/ c = HexUpper[n]) - 1

\* unicode.ToLower / ToUpper on ASCII letters.
AlphaLower == <<"a","b","c","d","e","f","g","h","i","j","k","l","m",
                "n","o","p","q","r","s","t","u","v","w","x","y","z">>

AlphaUpper == <<"A","B","C","D","E","F","G","H","I","J","K","L","M",
                "N","O","P","Q","R","S","T","U","V","W","X","Y","Z">>

ToLower(c) ==
  IF c \in Upper THEN AlphaLower[CHOOSE n \in 1..26 : AlphaUpper[n] = c] ELSE c

ToUpper(c) ==
  IF c \in Lower THEN AlphaUpper[CHOOSE n \in 1..26 : AlphaLower[n] = c] ELSE c

\* The first index >= i of s whose character is not in C (Len(s)+1 if none):
\* the end of the greedy run a character class with + or * consumes.
RECURSIVE RunEnd(_, _, _)
RunEnd(s, i, C) ==
  IF i > Len(s) \/ s[i] \notin C THEN i ELSE RunEnd(s, i + 1, C)

\* strings.Split(s, sep) for a one-character separator.
RECURSIVE SplitAcc(_, _, _, _)
SplitAcc(s, sep, i, cur) ==
  IF i > Len(s) THEN <<cur>>
  ELSE IF s[i] = sep THEN <<cur>> \o SplitAcc(s, sep, i + 1, <<>>)
  ELSE SplitAcc(s, sep, i + 1, Append(cur, s[i]))

Split(s, sep) == SplitAcc(s, sep, 1, <<>>)

\* strings.Join(list, sep), sep a string.
RECURSIVE Join(_, _)
Join(list, sep) ==
  IF Len(list) = 0 THEN <<>>
  ELSE IF Len(list) = 1 THEN list[1]
  ELSE list[1] \o sep \o Join(Tail(list), sep)

\* strings.TrimLeft(s, cutset) and strings.Trim(s, cutset).
TrimLeft(s, C) == SubSeq(s, RunEnd(s, 1, C), Len(s))

RECURSIVE RunStart(_, _, _)
RunStart(s, i, C) ==
  IF i < 1 \/ s[i] \notin C THEN i ELSE RunStart(s, i - 1, C)

TrimRight(s, C) == SubSeq(s, 1, RunStart(s, Len(s), C))

Trim(s, C) == TrimRight(TrimLeft(s, C), C)

TrimSpace(s) == Trim(s, Space)

\* slices.Contains
Contains(list, x) == \E i \in 1..Len(list) : list[i] = x

\* url.QueryUnescape: %XX is decoded, + is a space; a % that does not start a
\* valid escape makes the call fail, and a failed call returns "".
RECURSIVE Unescape(_, _)
Unescape(s, i) ==
  IF i > Len(s) THEN [ok |-> TRUE, out |-> <<>>]
  ELSE IF s[i] = "%"
    THEN IF i + 2 <= Len(s) /\ IsHex(s[i + 1]) /\ IsHex(s[i + 2])
           THEN LET r == Unescape(s, i + 3)
                IN  [ok |-> r.ok,
                     out |-> <<Chr(16 * HexVal(s[i + 1]) + HexVal(s[i + 2]))>> \o r.out]
           ELSE [ok |-> FALSE, out |-> <<>>]
    ELSE LET r == Unescape(s, i + 1)
         IN  [ok |-> r.ok, out |-> <<IF s[i] = "+" THEN " " ELSE s[i]>> \o r.out]

\* A QueryUnescape that decodes nothing.
QueryUnescapeOff(s) == s

QueryUnescape(s) == LET r == Unescape(s, 1) IN IF r.ok THEN r.out ELSE <<>>

(***************************************************************************)
(* The filter grammar parser, filterRegEx.                                 *)
(***************************************************************************)
\* [a-zA-Z_\-0-9]
ColChar == Letter \cup Digit \cup {"_", "-"}

\* [a-zA-Z_\-0-9\s\%\,]
ValChar == ColChar \cup Space \cup {"%", ","}

\* One match of the pattern
\*   ((?P<column>[a-zA-Z_\-0-9]+)\[(?P<condition>[a-zA-Z]+)\]
\*    (\=((?P<value>[a-zA-Z_\-0-9\s\%\,]+))){0,1})\&*
\* starting exactly at index i. No class holds the character that follows it
\* in the pattern, so each greedy run ends where the class ends.
filterMatchAt(s, i) ==
  LET j == RunEnd(s, i, ColChar)
      k == RunEnd(s, j + 1, Letter)
  IN  IF /\ j > i /\ j <= Len(s) /\ s[j] = "["
         /\ k > j + 1 /\ k <= Len(s) /\ s[k] = "]"
      THEN LET hasVal == k + 2 <= Len(s) /\ s[k + 1] = "=" /\ s[k + 2] \in ValChar
               m == IF hasVal THEN RunEnd(s, k + 2, ValChar) ELSE k + 1
           IN  [ok |-> TRUE,
                column |-> SubSeq(s, i, j - 1),
                condition |-> SubSeq(s, j + 1, k - 1),
                value |-> IF hasVal THEN SubSeq(s, k + 2, m - 1) ELSE <<>>,
                end |-> RunEnd(s, m, {"&"})]
      ELSE [ok |-> FALSE, column |-> <<>>, condition |-> <<>>, value |-> <<>>, end |-> i]

\* FindAllStringSubmatch: the leftmost match from pos on, then on from its end.
RECURSIVE filterRegExFrom(_, _)
filterRegExFrom(s, pos) ==
  IF pos > Len(s) THEN <<>>
  ELSE LET m == filterMatchAt(s, pos)
       IN  IF m.ok
           THEN <<[column |-> m.column, condition |-> m.condition, value |-> m.value]>>
                  \o filterRegExFrom(s, m.end)
           ELSE filterRegExFrom(s, pos + 1)

filterRegEx(str) == filterRegExFrom(str, 1)

\* The filter map as the mapper's loop holds it after line 792:
\* filter["value"], _ = url.QueryUnescape(filter["value"]).
UnescapedFilter(f) == [f EXCEPT !.value = QueryUnescape(f.value)]

(***************************************************************************)
(* The schema registry. A schema has a table name and its relationships,   *)
(* partitioned as gorm partitions them; a relationship has the name of its *)
(* field, the schema that declares it (Schema, which is also               *)
(* Field.Schema) and the schema it leads to (FieldSchema).                 *)
(***************************************************************************)

\* The tables of the registry, and the bound of the schema graphs: how many
\* relationships the schemas declare in all.
TableA == <<"A">>

TableB == <<"B">>

TableC == <<"C">>

Tables == {TableA, TableB, TableC}

MaxEdges == 4

Kinds == <<"has_one", "belongs_to", "has_many", "many2many">>

\* The field name of the i-th relationship of table t: a1, a2, b1, ...
RelName(t, i) == <<ToLower(t[1]), Chr(48 + i)>>

\* The kind of the i-th relationship a table declares. The kinds rotate, from
\* another start in each table, so that every list of every schema is filled
\* in some graph: A declares has_one, belongs_to, has_many, many2many, B
\* has_many, many2many, has_one, belongs_to and C many2many, has_one, ...
KindStart(t) == IF t = TableA THEN 0 ELSE IF t = TableB THEN 2 ELSE 3

KindAt(t, i) == Kinds[((KindStart(t) + i - 1) % 4) + 1]

\* The relationships of kind k among those a schema declares.
OfKind(rels, k) == SelectSeq(rels, LAMBDA r : r.Kind = k)

\* Relationships.Relations: every relationship of the schema. It is a map in
\* gorm; the walker treats every entry alike, so an order is fixed here.
Relations(sch) == sch.HasOne \o sch.BelongsTo \o sch.HasMany \o sch.Many2Many

MakeSchema(t, targets) ==
  LET rels == [i \in 1..Len(targets) |->
                 [Name |-> RelName(t, i), Schema |-> t,
                  FieldSchema |-> targets[i], Kind |-> KindAt(t, i)]]
  IN  [Table |-> t,
       HasOne |-> OfKind(rels, "has_one"),
       BelongsTo |-> OfKind(rels, "belongs_to"),
       HasMany |-> OfKind(rels, "has_many"),
       Many2Many |-> OfKind(rels, "many2many")]

MakeGraph(a, b, c) ==
  (TableA :> MakeSchema(TableA, a)) @@ (TableB :> MakeSchema(TableB, b))
    @@ (TableC :> MakeSchema(TableC, c))

\* Every graph over the tables with at most MaxEdges relationships, each
\* leading to any table: self references and cycles are among them.
Graphs ==
  UNION {{MakeGraph(a, b, c) :
            a \in [1..n[1] -> Tables], b \in [1..n[2] -> Tables], c \in [1..n[3] -> Tables]} :
         n \in {m \in (0..MaxEdges) \X (0..MaxEdges) \X (0..MaxEdges) :
                  m[1] + m[2] + m[3] <= MaxEdges}}

\* The schema a request is about.
RootTable == TableA

(***************************************************************************)
(* The relation graph walker, getAssociations, as the machine that runs    *)
(* its two nested loops and its recursion. `loaded` is passed on with      *)
(* `loaded...`, which hands the callee the caller's slice: loaded[0] is    *)
(* one string shared by every call of a walk.                              *)
(***************************************************************************)

\* The chain length from which the depth guard stops the walk (line 669).
DepthGuard == 4

\* The chain length from which the back-edge guard looks back (line 666).
BackEdgeMin == 2

\* A cap on the call stack of the model (the guards keep the code below it).
MaxStack == 8

Frame(prefix, s) == [prefix |-> prefix, s |-> s, idx |-> 1, inner |-> 0, preload |-> <<>>]

\* getAssociations(prefix, s) called without `loaded`: loaded = []string{s.Table}
WalkStart(prefix, s) ==
  [stack |-> <<Frame(prefix, s)>>, loaded |-> s, ret |-> <<>>, done |-> FALSE]

WalkIdle == [stack |-> <<>>, loaded |-> <<>>, ret |-> <<>>, done |-> TRUE]

\* relations = HasOne ++ BelongsTo ++ HasMany (lines 656-659)
WalkRelations(g, s) == g[s].HasOne \o g[s].BelongsTo \o g[s].HasMany

\* The two guards at the head of the outer loop (lines 665-671).
BackEdgeGuard(chunks, s) ==
  Len(chunks) > BackEdgeMin /\ chunks[Len(chunks) - 1] = s

\* A walker without the depth guard.
DepthGuardOff(chunks) == FALSE

\* A depth guard that stops the walk one chunk later.
DepthGuardLate(chunks) == Len(chunks) > DepthGuard + 1

DepthGuardHit(chunks) == Len(chunks) > DepthGuard

\* What the top frame does next.
WalkKind(w, g) ==
  IF w.done \/ Len(w.stack) = 0 THEN "done"
  ELSE LET top == w.stack[Len(w.stack)]
           rels == WalkRelations(g, top.s)
       IN  IF top.inner = 0
           THEN IF top.idx > Len(rels) THEN "return"
                ELSE LET chunks == Split(w.loaded, ".")
                     IN  IF BackEdgeGuard(chunks, top.s) \/ DepthGuardHit(chunks)
                         THEN "skip" ELSE "visit"
           ELSE LET items == Relations(g[rels[top.idx].FieldSchema])
                IN  IF top.inner > Len(items) THEN "next"
                    ELSE IF items[top.inner].Schema = top.s THEN "innerskip"
                    ELSE "call"

SetTop(w, f) == [w EXCEPT !.stack[Len(w.stack)] = f]

\* One step of getAssociations.
WalkStep(w, g) ==
  LET n == Len(w.stack)
      top == w.stack[n]
      rels == WalkRelations(g, top.s)
      kind == WalkKind(w, g)
  IN  CASE kind = "return" ->
             IF n = 1
             THEN [w EXCEPT !.stack = <<>>, !.ret = top.preload, !.done = TRUE]
             ELSE LET caller == w.stack[n - 1]
                  IN  [w EXCEPT !.stack =
                         Append(SubSeq(w.stack, 1, n - 2),
                                [caller EXCEPT !.preload = @ \o top.preload,
                                               !.inner = @ + 1])]
        [] kind = "skip" -> SetTop(w, [top EXCEPT !.idx = @ + 1])
        [] kind = "visit" ->
             LET relation == rels[top.idx]
             IN  [SetTop(w, [top EXCEPT
                     !.preload = Append(@, TrimLeft(top.prefix \o <<".">> \o relation.Name, {"."})),
                     !.inner = 1])
                  EXCEPT !.loaded = @ \o <<".">> \o relation.Schema]
        [] kind = "next" -> SetTop(w, [top EXCEPT !.idx = @ + 1, !.inner = 0])
        [] kind = "innerskip" -> SetTop(w, [top EXCEPT !.inner = @ + 1])
        [] kind = "call" ->
             LET relation == rels[top.idx]
                 item == Relations(g[relation.FieldSchema])[top.inner]
             IN  [w EXCEPT !.stack =
                    Append(@, Frame(top.prefix \o <<".">> \o relation.Name, item.Schema))]
        [] OTHER -> w

\* The walk run to its end: the value getAssociations returns.
RECURSIVE RunWalk(_, _)
RunWalk(w, g) == IF w.done THEN w ELSE RunWalk(WalkStep(w, g), g)

getAssociations(prefix, s, g) == RunWalk(WalkStart(prefix, s), g).ret

(***************************************************************************)
(* gorm's *DB as the orchestrators use it: the clauses a chain of calls    *)
(* has collected. NilDB is the nil pointer; any method call on it panics.  *)
(***************************************************************************)
NewDB ==
  [nil |-> FALSE, wheres |-> <<>>, unscoped |-> FALSE, orders |-> <<>>,
   preloads |-> <<>>, selects |-> <<>>, offset |-> 0, limit |-> 0]

NilDB == [NewDB EXCEPT !.nil = TRUE]

StrArg(s) == [kind |-> "string", str |-> s, list |-> <<>>]

SliceArg(l) == [kind |-> "slice", str |-> <<>>, list |-> l]

DBWhere(db, sql, args) == [db EXCEPT !.wheres = Append(@, [sql |-> sql, args |-> args])]

\* An Unscoped that leaves the soft-delete scope on.
DBUnscopedOff(db) == db

DBUnscoped(db) == [db EXCEPT !.unscoped = TRUE]

DBPreload(db, name) == [db EXCEPT !.preloads = Append(@, name)]

DBOrder(db, s) == [db EXCEPT !.orders = Append(@, s)]

DBSelect(db, list) == [db EXCEPT !.selects = list]

DBOffset(db, n) == [db EXCEPT !.offset = n]

DBLimit(db, n) == [db EXCEPT !.limit = n]

\* clause.Associations
ClauseAssociations == <<"~", "~", "~", "a", "s", "~", "~", "~">>

NilErr == [nil |-> TRUE, msg |-> <<>>]

ErrorColumnNotExist == [nil |-> FALSE, msg |-> <<"column does not exists">>]

ErrorObjectNotExist == [nil |-> FALSE, msg |-> <<"object does not exists">>]

(***************************************************************************)
(* The entity the requests are about: {id (pk), name, deleted_at} and an   *)
(* embedded model.Tag, whose value has the RestFilter method.              *)
(***************************************************************************)
s_id == <<"i", "d">>

s_name == <<"n", "a", "m", "e">>

s_deleted_at == <<"d", "e", "l", "e", "t", "e", "d", "_", "a", "t">>

s_tag == <<"t", "a", "g">>

\* The entity with a tag field whose value has no RestFilter method.
SchemaFieldsPlain ==
  << [Name |-> "ID", DBName |-> s_id, PrimaryKey |-> TRUE, RestFilter |-> FALSE],
     [Name |-> "Name", DBName |-> s_name, PrimaryKey |-> FALSE, RestFilter |-> FALSE],
     [Name |-> "DeletedAt", DBName |-> s_deleted_at, PrimaryKey |-> FALSE, RestFilter |-> FALSE],
     [Name |-> "Tag", DBName |-> s_tag, PrimaryKey |-> FALSE, RestFilter |-> FALSE] >>

SchemaFields ==
  << [Name |-> "ID", DBName |-> s_id, PrimaryKey |-> TRUE, RestFilter |-> FALSE],
     [Name |-> "Name", DBName |-> s_name, PrimaryKey |-> FALSE, RestFilter |-> FALSE],
     [Name |-> "DeletedAt", DBName |-> s_deleted_at, PrimaryKey |-> FALSE, RestFilter |-> FALSE],
     [Name |-> "Tag", DBName |-> s_tag, PrimaryKey |-> FALSE, RestFilter |-> TRUE] >>

PrimaryFields == SelectSeq(SchemaFields, LAMBDA f : f.PrimaryKey)

(***************************************************************************)
(* The condition mapper, filterMapper.                                     *)
(***************************************************************************)
c_eq == <<"e", "q">>

c_neq == <<"n", "e", "q">>

c_gt == <<"g", "t">>

c_lt == <<"l", "t">>

c_gte == <<"g", "t", "e">>

c_lte == <<"l", "t", "e">>

c_in == <<"i", "n">>

c_contains == <<"c", "o", "n", "t", "a", "i", "n", "s">>

c_isnull == <<"i", "s", "n", "u", "l", "l">>

c_notnull == <<"n", "o", "t", "n", "u", "l", "l">>

\* A vocabulary with one word more, and one with gte and lte exchanged.
filterConditionsWider ==
  (c_eq :> <<"=">>) @@ (c_neq :> <<"!=">>) @@ (c_gt :> <<">">>) @@ (c_lt :> <<"<">>)
    @@ (c_gte :> <<">=">>) @@ (c_lte :> <<"<=">>) @@ (c_in :> <<"in">>)
    @@ (c_contains :> <<"LIKE">>) @@ (c_isnull :> <<"IS NULL">>)
    @@ (c_notnull :> <<"IS NOT NULL">>) @@ (<<"l", "i", "k", "e">> :> <<"LIKE">>)

filterConditionsSwapped ==
  (c_eq :> <<"=">>) @@ (c_neq :> <<"!=">>) @@ (c_gt :> <<">">>) @@ (c_lt :> <<"<">>)
    @@ (c_gte :> <<"<=">>) @@ (c_lte :> <<">=">>) @@ (c_in :> <<"in">>)
    @@ (c_contains :> <<"LIKE">>) @@ (c_isnull :> <<"IS NULL">>)
    @@ (c_notnull :> <<"IS NOT NULL">>)

filterConditions ==
  (c_eq :> <<"=">>) @@ (c_neq :> <<"!=">>) @@ (c_gt :> <<">">>) @@ (c_lt :> <<"<">>)
    @@ (c_gte :> <<">=">>) @@ (c_lte :> <<"<=">>) @@ (c_in :> <<"in">>)
    @@ (c_contains :> <<"LIKE">>) @@ (c_isnull :> <<"IS NULL">>)
    @@ (c_notnull :> <<"IS NOT NULL">>)

ContainOperator == c_contains

NotNullOperator == c_notnull

IsNullOperator == c_isnull

InOperator == c_in

\* Tag.RestFilter: the query the handler builds on its own `query` variable.
TagRestFilter(query, filter) ==
  LET head == PrimaryFields[1].DBName \o <<" IN (SELECT ", BackQuote, "id", BackQuote,
                " FROM tag_entity WHERE ", BackQuote, "table", BackQuote, " = ? AND tag_key ">>
      args == <<StrArg(RootTable), SliceArg(Split(filter.value, ","))>>
  IN  IF filter.condition = c_contains
      THEN DBWhere(query, head \o <<"IN (?))">>, args)
      ELSE DBWhere(query, head \o <<"= ?)">>, args)

\* The index of the first field of the schema whose DBName is the column, or 0
\* (lines 793-799).
FieldOf(column) ==
  IF \E i \in 1..Len(SchemaFields) : SchemaFields[i].DBName = column
  THEN CHOOSE i \in 1..Len(SchemaFields) :
         /\ SchemaFields[i].DBName = column
         /\ \A j \in 1..(i - 1) : SchemaFields[j].DBName # column
  ELSE 0

\* The fixed vocabulary applied to one filter (lines 812-831): the query with the
\* fragment added, or the error of an unknown condition.
ApplyCondition(query, filter) ==
  LET col == <<BackQuote>> \o filter.column \o <<BackQuote>>
  IN  IF filter.condition = NotNullOperator \/ filter.condition = IsNullOperator
      THEN [query |-> DBWhere(IF filter.column = s_deleted_at THEN DBUnscoped(query) ELSE query,
                              col \o <<" ">> \o filterConditions[filter.condition], <<>>),
            err |-> NilErr]
      ELSE IF filter.condition = ContainOperator
      THEN [query |-> DBWhere(query, col \o <<" ">> \o <<"LIKE">> \o <<" ?">>,
                              <<StrArg(<<"%">> \o filter.value \o <<"%">>)>>),
            err |-> NilErr]
      ELSE IF filter.condition = InOperator
      THEN [query |-> DBWhere(query, col \o <<" IN (?)">>,
                              <<SliceArg(Split(filter.value, ","))>>),
            err |-> NilErr]
      ELSE IF filter.condition \in DOMAIN filterConditions
      THEN [query |-> DBWhere(query, col \o <<" ">> \o filterConditions[filter.condition] \o <<" ?">>,
                              <<StrArg(filter.value)>>),
            err |-> NilErr]
      ELSE [query |-> query,
            err |-> [nil |-> FALSE, msg |-> <<"invalid filter condition ">> \o filter.condition]]

\* The loop of filterMapper from the i-th parsed filter on. `chained` tells
\* whether the *gorm.DB handed in is a chain instance, which a Where called by
\* a custom handler changes in place, or a session root, which it leaves alone.
\* calls: the RestFilter calls made; trace: what became of each filter the
\* loop took up.
RECURSIVE filterLoop(_, _, _, _, _, _)
filterLoop(fs, i, chained, query, calls, trace) ==
  IF i > Len(fs)
  THEN [query |-> query, err |-> NilErr, calls |-> calls, trace |-> trace]
  ELSE LET filter == UnescapedFilter(fs[i])
           f == FieldOf(filter.column)
       IN  IF f = 0
           THEN [query |-> NilDB, err |-> ErrorColumnNotExist, calls |-> calls,
                 trace |-> Append(trace, [filter |-> filter, how |-> "nocolumn"])]
           ELSE IF SchemaFields[f].RestFilter
           THEN [query |-> IF chained THEN TagRestFilter(query, filter) ELSE query,
                 err |-> NilErr,
                 calls |-> Append(calls, [query |-> query, filter |-> filter]),
                 trace |-> Append(trace, [filter |-> filter, how |-> "rest"])]
           ELSE LET r == ApplyCondition(query, filter)
                IN  IF r.err.nil
                    THEN filterLoop(fs, i + 1, chained, r.query, calls,
                                    Append(trace, [filter |-> filter, how |-> "where"]))
                    ELSE [query |-> r.query, err |-> r.err, calls |-> calls,
                          trace |-> Append(trace, [filter |-> filter, how |-> "badcond"])]

filterMapper(filters, chained, query) ==
  filterLoop(filterRegEx(filters), 1, chained, query, <<>>, <<>>)

(***************************************************************************)
(* The orchestrators: Context.ApplyFilters and Context.FindByPrimaryKey.   *)
(***************************************************************************)
\* Whether s holds word (lower case) at index i, letter case ignored.
HasWordAt(s, i, word) ==
  /\ i + Len(word) - 1 <= Len(s)
  /\ \A n \in 1..Len(word) : ToLower(s[i + n - 1]) = word[n]

\* orderRegex.MatchString(item), orderRegex being
\*   (?mi)\s*[a-zA-Z0-9-_]+\s+(asc|desc)\s*
\* The pattern is not anchored: it matches when some character of the class
\* is followed by white space and then by asc or desc.
orderRegexMatch(item) ==
  \E p \in 1..Len(item) :
    /\ item[p] \in ColChar
    /\ LET e == RunEnd(item, p + 1, Space)
       IN  /\ e > p + 1
           /\ HasWordAt(item, e, <<"a", "s", "c">>) \/ HasWordAt(item, e, <<"d", "e", "s", "c">>)

\* cases.Title(language.English, cases.NoLower): the first letter of each word
\* in upper case, the rest as it is.
WordChar == Letter \cup Digit \cup {"_", "'"}

Title(str) ==
  [i \in 1..Len(str) |->
     IF i = 1 \/ str[i - 1] \notin WordChar THEN ToUpper(str[i]) ELSE str[i]]

\* relationsMapper: the first relation of the comma list that is not empty,
\* each of its dotted segments in title case.
RECURSIVE relationsFrom(_, _)
relationsFrom(relations, i) ==
  IF i > Len(relations) THEN <<>>
  ELSE LET nestedRelationsSlice == Split(relations[i], ".")
           titledSlice == [n \in 1..Len(nestedRelationsSlice) |-> Title(nestedRelationsSlice[n])]
           nestedRelation == Join(titledSlice, <<".">>)
       IN  IF Len(nestedRelation) > 0 THEN nestedRelation
           ELSE relationsFrom(relations, i + 1)

relationsMapper(joins) == relationsFrom(Split(joins, ","), 1)

RECURSIVE PreloadAll(_, _)
PreloadAll(db, items) ==
  IF Len(items) = 0 THEN db ELSE PreloadAll(DBPreload(db, items[1]), Tail(items))

s_one == <<"1">>

s_true == <<"t", "r", "u", "e">>

s_deep == <<"d", "e", "e", "p">>

\* The `associations` parameter (lines 538-554 and 590-607).
ApplyAssociations(query, association, g) ==
  IF association = <<>> THEN query
  ELSE IF association = s_one \/ association = s_true
  THEN DBPreload(query, ClauseAssociations)
  ELSE IF association = s_deep
  THEN PreloadAll(query, getAssociations(<<>>, RootTable, g))
  ELSE PreloadAll(query, Split(association, ","))

\* A validation that one good token satisfies.
OrderValidAny(order) ==
  \E i \in 1..Len(Split(order, ",")) : orderRegexMatch(Split(order, ",")[i])

\* The `order` parameter (lines 609-621).
OrderValid(order) ==
  LET items == Split(order, ",")
  IN  \A i \in 1..Len(items) : orderRegexMatch(items[i])

ApplyOrder(query, order) ==
  IF order # <<>> /\ OrderValid(order) THEN DBOrder(query, order) ELSE query

\* The `join` parameter (lines 566-571 and 629-634).
ApplyJoin(query, join) ==
  IF Len(join) > 0 /\ relationsMapper(join) # <<>>
  THEN DBPreload(query, relationsMapper(join))
  ELSE query

\* What a handler ends with. panic: the handler did not return. query, err:
\* what it returned. calls: the RestFilter calls made; trace: what became of
\* each filter taken up. executed: a data query ran; found: it gave a row.
\* query.Query{}
NewQuery ==
  [_select |-> <<>>, _from |-> <<>>, _where |-> <<>>, _groupBy |-> <<>>, _limit |-> <<>>,
   _offset |-> <<>>, _order |-> <<>>, _joins |-> <<>>, raw |-> <<>>]

\* view: what GetData built and returned (the Query it was left with, the
\* two statements, the total and the rows of the list).
NoViewResult ==
  [q |-> NewQuery, count |-> [sql |-> <<>>, where |-> <<>>],
   data |-> [sql |-> <<>>, where |-> <<>>], total |-> 0, result |-> <<>>]

\* context.Response, as FilterViewHandler fills it. called: GetData was
\* called, with Offset and Size as they are here.
NoResponse ==
  [Offset |-> 0, Page |-> 0, Size |-> 0, Total |-> 0, TotalPages |-> 0, Type |-> "",
   called |-> FALSE]

NoResult ==
  [handler |-> "none", panic |-> FALSE, query |-> NewDB, err |-> NilErr,
   calls |-> <<>>, trace |-> <<>>, executed |-> FALSE, found |-> FALSE,
   view |-> NoViewResult, response |-> NoResponse]

\* Context.ApplyFilters(query). panic: a method was called on the nil *gorm.DB
\* that filterMapper returns with ErrorColumnNotExist.
ApplyFilters(r, query, g) ==
  LET q1 == ApplyAssociations(query, r.associations, g)
      q2 == ApplyOrder(q1, r.order)
      q3 == IF Len(r.fields) > 0 THEN DBSelect(q2, Split(r.fields, ",")) ELSE q2
      q4 == ApplyJoin(q3, r.join)
      m == filterMapper(r.qs, r.chained, q4)
      q5 == IF r.offset > 0 THEN DBOffset(m.query, r.offset) ELSE m.query
      q6 == IF r.limit > 0 THEN DBLimit(q5, r.limit) ELSE q5
  IN  IF m.query.nil /\ (r.offset > 0 \/ r.limit > 0)
      THEN [NoResult EXCEPT !.handler = "ApplyFilters", !.panic = TRUE, !.query = NilDB,
                            !.calls = m.calls, !.trace = m.trace]
      ELSE [NoResult EXCEPT !.handler = "ApplyFilters", !.query = q6, !.err = m.err,
                            !.calls = m.calls, !.trace = m.trace]

\* Context.FindByPrimaryKey(input). exists: whether the store holds a row for
\* the query that is run. executed: Take ran the query.
FindByPrimaryKey(r, g, exists) ==
  LET d1 == ApplyAssociations(NewDB, r.associations, g)
      where == Join([i \in 1..Len(PrimaryFields) |-> PrimaryFields[i].DBName \o <<" = ?">>],
                    <<" AND ">>)
      params == [i \in 1..Len(PrimaryFields) |-> StrArg(r.pk)]
      d2 == ApplyJoin(d1, r.join)
      m == filterMapper(r.qs, r.chained, d2)
  IN  IF m.query.nil
      THEN [NoResult EXCEPT !.handler = "FindByPrimaryKey", !.panic = TRUE, !.query = NilDB,
                            !.calls = m.calls, !.trace = m.trace]
      ELSE [NoResult EXCEPT !.handler = "FindByPrimaryKey",
                            !.query = DBWhere(m.query, where, params), !.err = m.err,
                            !.calls = m.calls, !.trace = m.trace, !.executed = TRUE,
                            !.found = exists]

(***************************************************************************)
(* The query builder, package query. A Query is the record of its fields;  *)
(* every method is the operator that gives the Query it leaves behind.     *)
(* The statements are rendered character by character.                     *)
(***************************************************************************)
\* The cutset "`'\"" of the strings.Trim calls.
QuoteChars == {BackQuote, "'", "\""}

quote(s) ==
  LET t == Trim(s, QuoteChars)
      chunks == Split(t, ".")
  IN  IF Len(chunks) = 2
      THEN <<BackQuote>> \o chunks[1] \o <<BackQuote, ".", BackQuote>> \o chunks[2] \o <<BackQuote>>
      ELSE <<BackQuote>> \o t \o <<BackQuote>>

\* schema.Find(name): the model registered for the table, if any.
Find(g, name) == name \in DOMAIN g

\* A From that does not look whether the from list holds the table.
QueryFromAlways(q, s, g) ==
  [q EXCEPT !._from = Append(@, quote(s)),
            !._joins = IF Find(g, Trim(quote(s), QuoteChars))
                       THEN Append(@, Trim(quote(s), QuoteChars)) ELSE @]

QueryFrom(q, s, g) ==
  LET qs == quote(s)
  IN  IF Contains(q._from, qs) THEN q
      ELSE [q EXCEPT !._from = Append(@, qs),
                     !._joins = IF Find(g, Trim(qs, QuoteChars))
                                THEN Append(@, Trim(qs, QuoteChars)) ELSE @]

\* A quoter without the test of line 234.
IsExpressionOff(s) == FALSE

\* The test of line 234: the text is an expression between parentheses.
IsExpression(s) == Len(s) > 0 /\ s[1] = "(" /\ s[Len(s)] = ")"

\* quoteSelect: the quoted text and the Query after the From it may call.
quoteSelect(q, str, g) ==
  LET s == TrimSpace(str)
      chunks == Split(s, ".")
  IN  IF IsExpression(s) THEN [q |-> q, s |-> s]
      ELSE IF Len(chunks) = 2
      THEN LET table == Trim(chunks[1], QuoteChars)
               column == Trim(chunks[2], QuoteChars)
           IN  [q |-> QueryFrom(q, table, g),
                s |-> <<BackQuote>> \o table \o <<BackQuote, ".", BackQuote>> \o column
                        \o <<BackQuote>>]
      ELSE [q |-> q, s |-> <<BackQuote>> \o Trim(s, QuoteChars) \o <<BackQuote>>]

s_AS == <<" ", "A", "S", " ">>

\* Select(column, as...): as is the list of the optional arguments; r is
\* what quoteSelect gave.
addSelect(q, s) == IF Contains(q._select, s) THEN q ELSE [q EXCEPT !._select = Append(@, s)]

selectAs(r, as) ==
  addSelect(r.q, IF Len(as) > 0 THEN r.s \o s_AS \o <<BackQuote>> \o as[1] \o <<BackQuote>>
                 ELSE r.s)

QuerySelect(q, column, as, g) == selectAs(quoteSelect(q, column, g), as)

QueryWhere(q, s) == [q EXCEPT !._where = Append(@, s)]

QueryGroupBy(q, s) == [q EXCEPT !._groupBy = s]

QueryOffset(q, s) == [q EXCEPT !._offset = s]

QueryLimit(q, s) == [q EXCEPT !._limit = s]

QueryRaw(q, s) == [q EXCEPT !.raw = s]

\* The class [a-z_-] of sortRegex under (?i).
SortChar == Letter \cup {"_", "-"}

s_asc == <<"a", "s", "c">>

s_desc == <<"d", "e", "s", "c">>

\* The direction sortRegex takes at index i: asc is tried before desc.
SortAt(s, i) ==
  IF HasWordAt(s, i, s_asc) THEN SubSeq(s, i, i + 2)
  ELSE IF HasWordAt(s, i, s_desc) THEN SubSeq(s, i, i + 3)
  ELSE <<>>

\* sortRegex tried at index p of s:
\*   (?i)(?P<c1>[a-z_-]+)(\.(?P<c2>[a-z_-]+))?\.(?P<sort>asc|desc)
\* c1 is the run of the class from p, which a dot has to follow; the optional
\* group is tried first, and left out when the match fails with it.
sortMatchAt(s, p) ==
  LET e1 == RunEnd(s, p, SortChar)
      e2 == RunEnd(s, e1 + 1, SortChar)
      c1 == SubSeq(s, p, e1 - 1)
      no == [ok |-> FALSE, c1 |-> <<>>, g2 |-> <<>>, c2 |-> <<>>, sort |-> <<>>]
  IN  IF e1 = p \/ e1 > Len(s) \/ s[e1] # "." THEN no
      ELSE IF e2 > e1 + 1 /\ e2 <= Len(s) /\ s[e2] = "." /\ SortAt(s, e2 + 1) # <<>>
      THEN [ok |-> TRUE, c1 |-> c1, g2 |-> SubSeq(s, e1, e2 - 1),
            c2 |-> SubSeq(s, e1 + 1, e2 - 1), sort |-> SortAt(s, e2 + 1)]
      ELSE IF SortAt(s, e1 + 1) # <<>>
      THEN [ok |-> TRUE, c1 |-> c1, g2 |-> <<>>, c2 |-> <<>>, sort |-> SortAt(s, e1 + 1)]
      ELSE no

\* sortRegex.FindStringSubmatch(s): the leftmost match.
RECURSIVE sortFindFrom(_, _)
sortFindFrom(s, p) ==
  IF p > Len(s) THEN sortMatchAt(s, p)
  ELSE IF sortMatchAt(s, p).ok THEN sortMatchAt(s, p)
  ELSE sortFindFrom(s, p + 1)

sortRegexFind(s) == sortFindFrom(s, 1)

\* Order(s): one entry of _order for every chunk the pattern is found in.
RECURSIVE orderChunks(_, _, _)
orderChunks(q, chunks, i) ==
  IF i > Len(chunks) THEN q
  ELSE LET m == sortRegexFind(TrimSpace(chunks[i]))
           s == IF m.g2 # <<>>
                THEN quote(m.c1 \o <<".">> \o m.c2) \o <<" ">> \o m.sort
                ELSE quote(m.c1) \o <<" ">> \o m.sort
       IN  orderChunks(IF m.ok THEN [q EXCEPT !._order = Append(@, s)] ELSE q, chunks, i + 1)

QueryOrder(q, s) == orderChunks(q, Split(s, ","), 1)

\* fmt.Sprint of an integer.
RECURSIVE Digits(_)
Digits(n) == IF n < 10 THEN <<Chr(48 + n)>> ELSE Append(Digits(n \div 10), Chr(48 + (n % 10)))

Sprint(n) == IF n < 0 THEN <<"-">> \o Digits(0 - n) ELSE Digits(n)

\* generic.Parse(s).Int64(): the number a decimal string writes, and 0 for
\* any other string.
RECURSIVE DigitsValue(_)
DigitsValue(s) ==
  IF Len(s) = 0 THEN 0
  ELSE 10 * DigitsValue(SubSeq(s, 1, Len(s) - 1)) + (HexVal(s[Len(s)]))

IsDigits(s) == Len(s) > 0 /\ \A i \in 1..Len(s) : s[i] \in Digit

ParseInt64(s) ==
  IF IsDigits(s) THEN DigitsValue(s)
  ELSE IF Len(s) > 1 /\ s[1] = "-" /\ IsDigits(Tail(s)) THEN 0 - DigitsValue(Tail(s))
  ELSE 0

\* schema.Model.Join of the first registered model with the others: the
\* join predicates the schemas declare. A model joins the first one when a
\* relationship leads from one of the two to the other.
Related(g, a, b) ==
  \/ \E i \in 1..Len(Relations(g[a])) : Relations(g[a])[i].FieldSchema = b
  \/ \E i \in 1..Len(Relations(g[b])) : Relations(g[b])[i].FieldSchema = a

JoinCondition(a, b) ==
  <<BackQuote>> \o a \o <<BackQuote, ".", BackQuote, "i", "d", BackQuote, " ", "=", " ", BackQuote>>
    \o b \o <<BackQuote, ".", BackQuote>> \o <<ToLower(a[1])>> \o <<"_", "i", "d", BackQuote>>

RECURSIVE joinFrom(_, _, _)
joinFrom(g, joins, i) ==
  IF i > Len(joins) THEN <<>>
  ELSE (IF Related(g, joins[1], joins[i]) THEN <<JoinCondition(joins[1], joins[i])>> ELSE <<>>)
         \o joinFrom(g, joins, i + 1)

ModelJoin(g, joins) == joinFrom(g, joins, 2)

s_AND == <<" ", "A", "N", "D", " ">>

s_WHERE == <<" ", "W", "H", "E", "R", "E", " ">>

s_FROM == <<" ", "F", "R", "O", "M", " ">>

s_GROUP_BY == <<" ", "G", "R", "O", "U", "P", " ", "B", "Y", " ">>

s_ORDER_BY == <<" ", "O", "R", "D", "E", "R", " ", "B", "Y", " ">>

s_LIMIT == <<" ", "L", "I", "M", "I", "T", " ">>

s_OFFSET == <<" ", "O", "F", "F", "S", "E", "T", " ">>

s_SELECT == <<"S", "E", "L", "E", "C", "T", " ">>

s_COUNT ==
  s_SELECT \o <<"C", "O", "U", "N", "T", "(", "*", ")">> \o s_AS
    \o <<BackQuote, "c", "o", "u", "n", "t", BackQuote>> \o s_FROM

\* What a renderer hands back. panic: q._joins[0] was read on an empty list.
\* where: the condition the statement carries after WHERE, empty when it
\* carries none. q: the Query the call leaves behind.
Rendered(q, sql, where) == [panic |-> FALSE, q |-> q, sql |-> sql, where |-> where]

RenderPanic(q) == [panic |-> TRUE, q |-> q, sql |-> <<>>, where |-> <<>>]

\* The text both renderers write for q._where (lines 175-180 and 198-203).
WhereCondition(q) ==
  IF Len(q._where) > 0 THEN TrimSpace(Join(q._where, s_AND)) ELSE <<>>

WhereText(q) == IF WhereCondition(q) # <<>> THEN s_WHERE \o WhereCondition(q) ELSE <<>>

GroupByText(q) == IF q._groupBy # <<>> THEN s_GROUP_BY \o q._groupBy ELSE <<>>

GetCountQuery(q, g) ==
  IF Len(q._joins) = 0 THEN RenderPanic(q)
  ELSE LET q1 == [q EXCEPT !._where = @ \o ModelJoin(g, q._joins)]
       IN  Rendered(q1,
                    s_COUNT \o Join(q1._from, <<",">>) \o WhereText(q1) \o GroupByText(q1),
                    WhereCondition(q1))

GetQuery(q, g) ==
  IF q.raw # <<>> THEN Rendered(q, q.raw, <<>>)
  ELSE IF Len(q._joins) = 0 THEN RenderPanic(q)
  ELSE LET q1 == [q EXCEPT !._where = @ \o ModelJoin(g, q._joins)]
       IN  Rendered(q1,
                    s_SELECT \o Join(q1._select, <<",">>) \o s_FROM \o Join(q1._from, <<",">>)
                      \o WhereText(q1) \o GroupByText(q1)
                      \o (IF Len(q1._order) > 0 THEN s_ORDER_BY \o Join(q1._order, <<",">>)
                          ELSE <<>>)
                      \o (IF q1._limit # <<>> THEN s_LIMIT \o Sprint(ParseInt64(q1._limit))
                          ELSE <<>>)
                      \o (IF q1._offset # <<>> THEN s_OFFSET \o Sprint(ParseInt64(q1._offset))
                          ELSE <<>>),
                    WhereCondition(q1))

(***************************************************************************)
(* FilterView.GetData. A view is the record of the FilterView fields that  *)
(* GetData reads; store is what the database answers to the two statements.*)
(***************************************************************************)
\* strings.Replace(s, "*", v, -1)
RECURSIVE ReplaceStar(_, _)
ReplaceStar(s, v) ==
  IF Len(s) = 0 THEN <<>>
  ELSE (IF s[1] = "*" THEN v ELSE <<s[1]>>) \o ReplaceStar(Tail(s), v)

\* request.Param(name).String() and request.Query(name).String()
RequestParam(r, name) == IF name \in DOMAIN r.params THEN r.params[name] ELSE <<>>

RequestQuery(r, name) == IF name \in DOMAIN r.query THEN r.query[name] ELSE <<>>

RECURSIVE selectColumns(_, _, _, _)
selectColumns(q, columns, i, g) ==
  IF i > Len(columns) THEN q
  ELSE selectColumns(IF columns[i].DBField = <<"-">> \/ columns[i].DBField = <<>> THEN q
                     ELSE QuerySelect(q, columns[i].DBField, <<>>, g),
                     columns, i + 1, g)

RECURSIVE selectSelects(_, _, _, _)
selectSelects(q, sel, i, g) ==
  IF i > Len(sel) THEN q
  ELSE selectSelects(IF sel[i].As # <<>> THEN QuerySelect(q, sel[i].Select, <<sel[i].As>>, g)
                     ELSE QuerySelect(q, sel[i].Select, <<>>, g),
                     sel, i + 1, g)

RECURSIVE fromJoins(_, _, _, _)
fromJoins(q, joins, i, g) ==
  IF i > Len(joins) THEN q
  ELSE LET q1 == QueryFrom(q, joins[i].Table, g)
       IN  fromJoins(IF joins[i].Condition # <<>> THEN QueryWhere(q1, joins[i].Condition) ELSE q1,
                     joins, i + 1, g)

RECURSIVE whereURLParams(_, _, _, _)
whereURLParams(q, items, i, r) ==
  IF i > Len(items) THEN q
  ELSE whereURLParams(QueryWhere(q, ReplaceStar(items[i].Filter, RequestParam(r, items[i].Name))),
                      items, i + 1, r)

RECURSIVE whereFilters(_, _, _, _)
whereFilters(q, items, i, r) ==
  IF i > Len(items) THEN q
  ELSE whereFilters(IF RequestQuery(r, items[i].Name) # <<>>
                    THEN QueryWhere(q, ReplaceStar(items[i].Filter, RequestQuery(r, items[i].Name)))
                    ELSE q,
                    items, i + 1, r)

\* tpl.Render(template, row), and a column's Processor(row): what they give
\* is theirs to say; the model keeps what they were given.
Render(template, row) == [tpl |-> template, row |-> row]

Processed(row) == [processor |-> row]

\* fmt.Sprint(row[field])
s_nil == <<"<", "n", "i", "l", ">">>

RowValue(row, field) == IF field \in DOMAIN row THEN row[field] ELSE s_nil

\* A cell that asks for the processor before it looks at the actions.
CellProcessorFirst(column, row) ==
  LET text == IF column.Processor THEN [kind |-> "processed", v |-> Processed(row)]
              ELSE IF Len(column.Actions) > 0 THEN [kind |-> "buttons", buttons |-> <<>>]
              ELSE [kind |-> "text", v |-> RowValue(row, column.DBField)]
  IN  IF column.Href # <<>>
      THEN [kind |-> "link", href |-> Render(column.Href, row), text |-> text]
      ELSE text

\* One cell of the list (lines 156-181).
Cell(column, row) ==
  IF Len(column.Actions) > 0
  THEN [kind |-> "buttons",
        buttons |-> [n \in 1..Len(column.Actions) |->
                       [Type |-> column.Actions[n].Type,
                        Href |-> Render(column.Actions[n].Href, row),
                        OnClick |-> Render(column.Actions[n].OnClick, row),
                        Text |-> column.Actions[n].Text,
                        Icon |-> column.Actions[n].Icon]]]
  ELSE LET text == IF column.Processor THEN [kind |-> "processed", v |-> Processed(row)]
                   ELSE [kind |-> "text", v |-> RowValue(row, column.DBField)]
       IN  IF column.Href # <<>>
           THEN [kind |-> "link", href |-> Render(column.Href, row), text |-> text]
           ELSE text

Project(columns, rows) ==
  [j \in 1..Len(rows) |-> [i \in 1..Len(columns) |-> Cell(columns[i], rows[j])]]

s_invalid_model == <<"invalid model ">>

\* Lines 88-109: the columns and the sort parameter.
viewOrder(q, order) == IF order # <<>> /\ OrderValid(order) THEN QueryOrder(q, order) ELSE q

\* Lines 117-145: the Query of a view whose model is registered.
viewQuery(q, v, offset, size, r, g) ==
  whereFilters(
    QueryOffset(
      QueryLimit(
        whereURLParams(
          fromJoins(
            QueryFrom(
              selectSelects(
                QuerySelect(q, v.Model.Table \o <<".">> \o s_id, <<<<"p", "k">>>>, g),
                v.Select, 1, g),
              v.Model.Table, g),
            v.Join, 1, g),
          v.URLParams, 1, r),
        Sprint(size)),
      Sprint(offset)),
    v.Filters, 1, r)

\* Lines 147-186: the two statements are rendered and run, the rows projected.
viewResult(v, store, count, data) ==
  IF count.panic \/ data.panic
  THEN [NoResult EXCEPT !.handler = "GetData", !.panic = TRUE,
                        !.view = [NoViewResult EXCEPT !.q = data.q]]
  ELSE [NoResult EXCEPT !.handler = "GetData", !.executed = TRUE,
                        !.found = Len(store.rows) > 0,
                        !.view = [q |-> data.q,
                                  count |-> [sql |-> count.sql, where |-> count.where],
                                  data |-> [sql |-> data.sql, where |-> data.where],
                                  total |-> store.total,
                                  result |-> Project(v.Columns, store.rows)]]

viewRender(v, store, count, g) == viewResult(v, store, count, GetQuery(count.q, g))

\* The model checks of lines 111-116, on the Query built so far.
viewModel(q, v, offset, size, r, g, store) ==
  IF v.Model.nil
  THEN [NoResult EXCEPT !.handler = "GetData", !.panic = TRUE,
                        !.view = [NoViewResult EXCEPT !.q = q]]
  ELSE IF ~Find(g, v.Model.Table)
  THEN [NoResult EXCEPT !.handler = "GetData",
                        !.err = [nil |-> FALSE, msg |-> s_invalid_model \o v.Model.Type],
                        !.view = [NoViewResult EXCEPT !.q = q]]
  ELSE viewRender(v, store, GetCountQuery(viewQuery(q, v, offset, size, r, g), g), g)

\* GetData(offset, size, request). The order of the code is kept: the sort
\* parameter is validated and applied before the model is looked at.
GetData(v, offset, size, r, g, store) ==
  viewModel(viewOrder(selectColumns(NewQuery, v.Columns, 1, g), r.sort),
            v, offset, size, r, g, store)

(***************************************************************************)
(* FilterViewHandler: the page, the offset and the size of the request are *)
(* reconciled, GetData is called and the Response filled.                  *)
(***************************************************************************)
\* The quotient of Go's integer division, which truncates toward zero.
Abs(n) == IF n < 0 THEN 0 - n ELSE n

GoDiv(a, b) ==
  IF (a < 0) = (b < 0) THEN Abs(a) \div Abs(b) ELSE 0 - (Abs(a) \div Abs(b))

s_offset == <<"o", "f", "f", "s", "e", "t">>

s_page == <<"p", "a", "g", "e">>

s_size == <<"s", "i", "z", "e">>

\* request.Query(name).Int()
RequestInt(r, name) == ParseInt64(RequestQuery(r, name))

\* The default and the ceiling of the page size (lines 355-360).
DefaultSize == 25

MaxSize == 100

Paged(offset, page, size) == [panic |-> FALSE, Offset |-> offset, Page |-> page, Size |-> size]

\* Lines 347-350: the offset of a page.
pageOffset(offset, page, size) ==
  IF offset = 0 /\ page > 0 THEN Paged((page - 1) * size, page - 1, size)
  ELSE Paged(offset, page, size)

\* Lines 352-354: the page of an offset. The division is by the size as the
\* request gave it: by zero it panics.
offsetPage(p) ==
  IF p.Page = 0 /\ p.Offset > 0
  THEN IF p.Size = 0 THEN [p EXCEPT !.panic = TRUE]
       ELSE [p EXCEPT !.Page = GoDiv(p.Offset, p.Size)]
  ELSE p

\* Lines 355-360: the ceiling, then the default.
SizeClampOff(p) == p

sizeClamp(p) ==
  IF p.Size > MaxSize THEN [p EXCEPT !.Size = MaxSize]
  ELSE IF p.Size = 0 THEN [p EXCEPT !.Size = DefaultSize]
  ELSE p

reconcile(offset, page, size) ==
  IF offsetPage(pageOffset(offset, page, size)).panic
  THEN offsetPage(pageOffset(offset, page, size))
  ELSE sizeClamp(offsetPage(pageOffset(offset, page, size)))

\* Lines 361-373: what the handler leaves after GetData has returned d.
handlerResult(p, d) ==
  IF d.panic \/ ~d.err.nil
  THEN [d EXCEPT !.handler = "FilterViewHandler",
                 !.response = [NoResponse EXCEPT !.Offset = p.Offset, !.Page = p.Page,
                                                 !.Size = p.Size, !.called = TRUE]]
  ELSE [d EXCEPT !.handler = "FilterViewHandler",
                 !.response = [Offset |-> p.Offset, Page |-> p.Page, Size |-> p.Size,
                               Total |-> d.view.total,
                               TotalPages |-> IF p.Size > 0
                                              THEN GoDiv(d.view.total, p.Size) + 1 ELSE 0,
                               Type |-> "filterview", called |-> TRUE]]

handlerPaged(p, v, r, g, store) ==
  IF p.panic
  THEN [NoResult EXCEPT !.handler = "FilterViewHandler", !.panic = TRUE,
                        !.response = [NoResponse EXCEPT !.Offset = p.Offset, !.Page = p.Page,
                                                        !.Size = p.Size]]
  ELSE handlerResult(p, GetData(v, p.Offset, p.Size, r, g, store))

s_invalid_handler == <<"invalid filterview handler">>

s_access_denied == <<"access denied">>

\* FilterViewHandler(context). allowed: HasPerm("VIEW") gave no error.
FilterViewHandler(v, r, g, store, allowed) ==
  IF ~allowed
  THEN [NoResult EXCEPT !.handler = "FilterViewHandler",
                        !.err = [nil |-> FALSE, msg |-> s_access_denied]]
  ELSE IF ~v.registered
  THEN [NoResult EXCEPT !.handler = "FilterViewHandler",
                        !.err = [nil |-> FALSE, msg |-> s_invalid_handler]]
  ELSE handlerPaged(reconcile(RequestInt(r, s_offset), RequestInt(r, s_page),
                              RequestInt(r, s_size)),
                    v, r, g, store)

(***************************************************************************)
(* The CRUD handlers Create, Update, Delete and Get. Each is a row of      *)
(* steps, every one of which can end the handler with its error. The      *)
(* object tells which hooks it implements and what each call gives:        *)
(* perm is what HasPerm finds, body whether BodyParser succeeds, before,   *)
(* validate and after what the hooks of the operation do, store whether    *)
(* the write succeeds, exists whether the lookup finds a row, soft         *)
(* whether the object has Delete(v bool).                                  *)
(***************************************************************************)
ErrorPermissionDenied == [nil |-> FALSE, msg |-> <<"permission denied">>]

ErrorUnauthorized == [nil |-> FALSE, msg |-> <<"unauthorized">>]

\* The error a call of the object or of the store returns when it fails.
ErrorOf(step) == [nil |-> FALSE, msg |-> <<step>>]

\* One step of a handler: outcome is "absent" for a hook the object does not
\* implement, "ok", "fail" (the step returns err) or "panic".
Step(step, outcome, err) == [step |-> step, outcome |-> outcome, err |-> err]

Call(step, succeeds) == Step(step, IF succeeds THEN "ok" ELSE "fail", ErrorOf(step))

Hook(step, outcome) == Step(step, outcome, ErrorOf(step))

\* Context.HasPerm (part_001:705-717).
HasPerm(o) ==
  Step("HasPerm",
       IF o.perm = "ok" THEN "ok" ELSE "fail",
       IF o.perm = "anonymous" THEN ErrorUnauthorized ELSE ErrorPermissionDenied)

\* A lookup whose key is not tested.
LookupAnyKey(f) ==
  Step("FindByPrimaryKey",
       IF f.panic THEN "panic" ELSE IF ~f.err.nil THEN "fail" ELSE "ok", f.err)

\* key, err := context.FindByPrimaryKey(ptr), and the two tests on it.
Lookup(f) ==
  Step("FindByPrimaryKey",
       IF f.panic THEN "panic" ELSE IF ~f.err.nil \/ ~f.found THEN "fail" ELSE "ok",
       IF ~f.err.nil THEN f.err ELSE ErrorObjectNotExist)

\* The steps run in order up to the first that does not succeed. steps: the
\* steps that ran; complete: the last line of the handler was reached.
RECURSIVE RunSteps(_, _, _)
RunSteps(plan, i, steps) ==
  IF i > Len(plan)
  THEN [steps |-> steps, err |-> NilErr, panic |-> FALSE, complete |-> TRUE]
  ELSE IF plan[i].outcome = "absent" THEN RunSteps(plan, i + 1, steps)
  ELSE IF plan[i].outcome = "ok" THEN RunSteps(plan, i + 1, Append(steps, plan[i].step))
  ELSE [steps |-> Append(steps, plan[i].step),
        err |-> IF plan[i].outcome = "panic" THEN NilErr ELSE plan[i].err,
        panic |-> plan[i].outcome = "panic", complete |-> FALSE]

\* What a handler leaves. data: context.Response.Data was set.
Answer(handler, r, setsData) ==
  [handler |-> handler, panic |-> r.panic, err |-> r.err, steps |-> r.steps,
   data |-> setsData /\ r.complete]

\* A Create that writes before it validates.
CreateStepsStoreFirst(o) ==
  <<HasPerm(o), Call("BodyParser", o.body), Hook("BeforeCreate", o.before),
    Call("dbo.Create", o.store), Hook("ValidateCreate", o.validate),
    Hook("AfterCreate", o.after)>>

\* Create (handlers.go:76-111).
CreateSteps(o) ==
  <<HasPerm(o), Call("BodyParser", o.body), Hook("BeforeCreate", o.before),
    Hook("ValidateCreate", o.validate), Call("dbo.Create", o.store),
    Hook("AfterCreate", o.after)>>

Create(o) == Answer("Create", RunSteps(CreateSteps(o), 1, <<>>), TRUE)

\* Update (handlers.go:120-163).
UpdateSteps(o, f) ==
  <<HasPerm(o), Lookup(f), Call("BodyParser", o.body), Hook("BeforeUpdate", o.before),
    Hook("ValidateUpdate", o.validate), Call("dbo.Save", o.store),
    Hook("AfterUpdate", o.after)>>

Update(o, f) == Answer("Update", RunSteps(UpdateSteps(o, f), 1, <<>>), TRUE)

\* Delete (handlers.go:168-207): a soft delete where the object has
\* Delete(v bool), and no Response.Data.
DeleteSteps(o, f) ==
  <<HasPerm(o), Lookup(f), Hook("BeforeDelete", o.before),
    IF o.soft THEN Call("dbo.Updates", o.store) ELSE Call("dbo.Delete", o.store),
    Hook("AfterDelete", o.after)>>

Delete(o, f) == Answer("Delete", RunSteps(DeleteSteps(o, f), 1, <<>>), FALSE)

\* Get (handlers.go:214-241): BeforeGet runs before the lookup.
GetSteps(o, f) ==
  <<HasPerm(o), Hook("BeforeGet", o.before), Lookup(f), Hook("AfterGet", o.after)>>

Get(o, f) == Answer("Get", RunSteps(GetSteps(o, f), 1, <<>>), TRUE)

(***************************************************************************)
(* The requests the handlers are run on. A request keeps the filter        *)
(* entries its client wrote beside the query string made of them.          *)
(***************************************************************************)
s_foo == <<"f", "o", "o">>

c_like == <<"l", "i", "k", "e">>

s_x == <<"x">>

s_abc == <<"a", ",", "b", ",", "c">>

NoValue == [hasValue |-> FALSE, value |-> <<>>]

Value(v) == [hasValue |-> TRUE, value |-> v]

Entry(column, condition, v) ==
  [column |-> column, condition |-> condition, hasValue |-> v.hasValue, value |-> v.value]

\* column[condition] or column[condition]=value
EntryString(e) ==
  e.column \o <<"[">> \o e.condition \o <<"]">>
    \o (IF e.hasValue THEN <<"=">> \o e.value ELSE <<>>)

QueryStringOf(entries) ==
  Join([i \in 1..Len(entries) |-> EntryString(entries[i])], <<"&">>)

\* The columns of the entries: three of the schema and one that is not.
FilterColumns == {s_name, s_deleted_at, s_tag, s_foo}

\* The conditions: the vocabulary and one word outside it.
FilterConditionNames == DOMAIN filterConditions \cup {c_like}

FilterValues == {NoValue, Value(<<>>), Value(s_x), Value(s_abc)}

SingleEntries ==
  {<<Entry(c, k, v)>> : c \in FilterColumns, k \in FilterConditionNames, v \in FilterValues}

CoreEntries ==
  {Entry(c, k, v) : c \in FilterColumns, k \in {c_eq, c_notnull, c_like},
                    v \in {NoValue, Value(s_x)}}

PairEntries == {<<e1, e2>> : e1 \in CoreEntries, e2 \in CoreEntries}

NoParams ==
  [entries |-> <<>>, qs |-> <<>>, associations |-> <<>>, order |-> <<>>, fields |-> <<>>,
   join |-> <<>>, offset |-> 0, limit |-> 0, chained |-> TRUE, pk |-> <<"7">>,
   sort |-> <<>>, params |-> <<>>, query |-> <<>>]

\* Requests that vary the filter, offset and limit. qs is the part of the
\* query string that holds the filter entries: the other parameters have no
\* bracket, and the pattern of the parser finds nothing in them.
FilterRequests ==
  {[NoParams EXCEPT !.entries = es, !.qs = QueryStringOf(es), !.offset = o, !.limit = l,
                    !.chained = ch] :
     es \in {<<>>} \cup SingleEntries \cup PairEntries,
     o \in {0, 2}, l \in {0, 3}, ch \in BOOLEAN}

o_name_asc == <<"n", "a", "m", "e", " ", "a", "s", "c">>

o_two == <<"n", "a", "m", "e", " ", "d", "e", "s", "c", ",", "i", "d", " ", "A", "S", "C">>

o_bad_second == <<"n", "a", "m", "e", " ", "a", "s", "c", ",", "?", "?", "?">>

o_bad_first == <<"?", "?", "?", ",", "n", "a", "m", "e", " ", "a", "s", "c">>

o_no_direction == <<"n", "a", "m", "e">>

o_trailing == <<"n", "a", "m", "e", " ", "a", "s", "c", ";", " ", "x">>

o_dotted == <<"n", "a", "m", "e", ".", "a", "s", "c">>

o_dotted_two == <<"x", ".", "a", "s", "c", " ", "y", " ", "d", "e", "s", "c">>

OrderParams ==
  {<<>>, o_name_asc, o_two, o_bad_second, o_bad_first, o_no_direction, o_trailing,
   o_dotted, o_dotted_two}

a_list == <<"a", "1", ",", "a", "2", ".", "c", "1">>

AssociationParams == {<<>>, s_one, s_true, s_deep, a_list}

j_one == <<"a", "1">>

j_list == <<",", "a", "1", ".", "b", "1", ",", "a", "2">>

JoinParams == {<<>>, j_one, j_list}

f_list == <<"i", "d", ",", "n", "a", "m", "e">>

FieldsParams == {<<>>, f_list}

\* Requests that vary the other parameters.
ParamRequests ==
  {[NoParams EXCEPT !.associations = a, !.order = o, !.fields = f, !.join = j,
                    !.entries = es, !.qs = QueryStringOf(es)] :
     a \in AssociationParams, o \in OrderParams, f \in FieldsParams, j \in JoinParams,
     es \in {<<>>, <<Entry(s_name, c_eq, Value(s_x))>>, <<Entry(s_foo, c_eq, Value(s_x))>>}}

\* The views GetData is run for.
NoColumn == [DBField |-> <<>>, Processor |-> FALSE, Href |-> <<>>, Actions |-> <<>>]

NoView ==
  [registered |-> FALSE, Model |-> [nil |-> TRUE, Table |-> <<>>, Type |-> <<>>],
   Columns |-> <<>>, Select |-> <<>>, Join |-> <<>>, URLParams |-> <<>>, Filters |-> <<>>]

s_title == <<"B", ".", "t", "i", "t", "l", "e">>

s_q == <<"q">>

ViewPlain ==
  [NoView EXCEPT !.registered = TRUE,
                 !.Model = [nil |-> FALSE, Table |-> TableA, Type |-> <<"Entity">>],
                 !.Columns = <<[NoColumn EXCEPT !.DBField = s_name]>>]

ViewJoined ==
  [ViewPlain EXCEPT
     !.Columns = <<[NoColumn EXCEPT !.DBField = s_name],
                   [NoColumn EXCEPT !.DBField = s_title, !.Href = <<"/b/{id}">>],
                   [NoColumn EXCEPT !.DBField = <<>>, !.Processor = TRUE],
                   [NoColumn EXCEPT !.DBField = <<"-">>,
                      !.Actions = <<[Type |-> "link", Href |-> <<"/a/{pk}">>,
                                     OnClick |-> <<>>, Text |-> "open", Icon |-> "eye"]>>]>>,
     !.Select = <<[Select |-> <<"B", ".", "i", "d">>, As |-> <<"b", "i", "d">>],
                  [Select |-> <<"(", "1", ")">>, As |-> <<>>]>>,
     !.Join = <<[Table |-> TableB, Condition |-> <<"A", ".", "b", "=", "B", ".", "i", "d">>],
                [Table |-> TableC, Condition |-> <<>>]>>,
     !.URLParams = <<[Name |-> s_id, Filter |-> <<"A", ".", "o", "=", "*">>]>>,
     !.Filters = <<[Name |-> s_q, Filter |-> <<"n", "a", "m", "e", "=", "'", "*", "'">>]>>]

ViewNilModel == [ViewPlain EXCEPT !.Model = [nil |-> TRUE, Table |-> <<>>, Type |-> <<>>]]

ViewUnknownModel ==
  [ViewPlain EXCEPT !.Model = [nil |-> FALSE, Table |-> <<"X">>, Type |-> <<"Other">>]]

\* A view whose columns all declare an href template: one with a processor,
\* one with an action and a processor, one on a field the rows do not hold.
ViewLinked ==
  [ViewPlain EXCEPT
     !.Columns = <<[NoColumn EXCEPT !.DBField = s_name, !.Processor = TRUE,
                                    !.Href = <<"/n/{pk}">>],
                   [NoColumn EXCEPT !.DBField = <<"-">>, !.Processor = TRUE,
                      !.Href = <<"/x/{pk}">>,
                      !.Actions = <<[Type |-> "link", Href |-> <<"/a/{pk}">>,
                                     OnClick |-> <<"go({pk})">>, Text |-> "open",
                                     Icon |-> "eye"]>>],
                   [NoColumn EXCEPT !.DBField = s_tag, !.Href = <<"/t/{pk}">>]>>]

Views == {ViewPlain, ViewJoined, ViewNilModel, ViewUnknownModel, ViewLinked}

o_sort_two == <<"x", ".", "a", "s", "c", " ", "y", " ", "d", "e", "s", "c", ",", "?", "?", "?">>

SortParams ==
  {<<>>, o_name_asc, o_two, o_bad_second, o_bad_first, o_dotted, o_dotted_two, o_sort_two}

\* Requests of a list view: the sort, a path parameter and a filter value.
ViewRequests ==
  {[NoParams EXCEPT !.sort = o, !.params = (s_id :> <<"7">>), !.query = qv] :
     o \in SortParams, qv \in {<<>>, (s_q :> s_x)}}

\* What the page parameters of a list request are written as; the empty
\* string is a parameter the request does not carry.
OffsetParams == {<<>>, <<"2", "0">>, <<"3", "0">>}

PageParams == {<<>>, <<"1">>, <<"3">>, <<"-", "1">>}

SizeParams == {<<>>, <<"0">>, <<"2">>, <<"1", "0">>, <<"1", "0", "0">>, <<"1", "0", "1">>,
               <<"5", "0", "0">>, <<"-", "5">>, <<"a", "b", "c">>}

PageRequests ==
  {[NoParams EXCEPT !.query = (s_offset :> o) @@ (s_page :> p) @@ (s_size :> z)] :
     o \in OffsetParams, p \in PageParams, z \in SizeParams}

\* A request and the view of the object it is about, if the object has one.
Calls ==
  {[req |-> r, view |-> NoView] : r \in FilterRequests \cup ParamRequests}
    \cup {[req |-> r, view |-> v] : r \in ViewRequests, v \in Views}
    \cup {[req |-> r, view |-> ViewPlain] : r \in PageRequests}

\* What the database answers.
Row(n) == (s_name :> <<"n", Chr(48 + n)>>) @@ (<<"p", "k">> :> <<Chr(48 + n)>>)

Stores == {[total |-> 0, rows |-> <<>>], [total |-> 2, rows |-> <<Row(1), Row(2)>>]}

PageOffsets == {0, 50}

PageSize == 25

\* The registry the requests run on: A and B refer to each other.
EntityGraph == MakeGraph(<<TableB, TableC>>, <<TableA>>, <<TableA, TableB>>)

\* What the calls on a Query are made with.
SelectColumns ==
  {<<"A", ".", "i", "d">>, <<"B", ".", "n", "a", "m", "e">>,
   <<BackQuote, "n", "a", "m", "e", BackQuote>>, <<"(", "1", ")">>,
   <<"(", "A", ".", "i", "d", ")">>}

SelectAs == {<<>>, <<<<"p", "k">>>>}

FromTables == {TableA, TableB, <<BackQuote, "C", BackQuote>>, <<"X">>}

WhereFragments == {<<"x", "=", "1">>, <<>>}

GroupBys == {s_name}

OrderSpecs == {<<"n", "a", "m", "e", ".", "a", "s", "c">>,
               <<"A", ".", "i", "d", ".", "D", "E", "S", "C", ",", "?", "?", "?">>}

LimitSpecs == {<<"1", "0">>, <<"a", "b", "c">>}

OffsetSpecs == {<<"5">>}

RawStatements == {<<"SELECT 1">>}

\* How many calls are made on one Query.
MaxOps == 4

\* The entries the parser is run on, two to a filter string. The values
\* carry percent escapes, well formed and not.
ParseColumns == {s_name, <<"a", "-", "b", "_", "1">>, <<"X", "9">>}

ParseConditions ==
  {c_eq, c_notnull, <<"I", "N">>, <<"g", "2">>, <<"i", "s", "_", "n", "u", "l", "l">>,
   <<"n", "o", "t", "-", "n", "u", "l", "l">>}

v_comma == <<"a", "%", "2", "C", "b">>

v_space == <<"a", "%", "2", "0", "b">>

v_twice == <<"%", "2", "5", "4", "1">>

v_lower == <<"%", "7", "e">>

v_percent == <<"5", "0", "%">>

v_nothex == <<"%", "z", "z">>

v_blank == <<"a", " ", "b">>

ParseValues ==
  {NoValue, Value(<<>>), Value(s_x), Value(s_abc), Value(v_comma), Value(v_space),
   Value(v_twice), Value(v_lower), Value(v_percent), Value(v_nothex), Value(v_blank)}

ParseEntries ==
  {Entry(c, k, v) : c \in ParseColumns, k \in ParseConditions, v \in ParseValues}

\* One entry is kept plain so that the pairs stay few.
ParseRequests ==
  {[NoParams EXCEPT !.entries = <<e1, e2>>, !.qs = QueryStringOf(<<e1, e2>>)] :
     e1 \in ParseEntries,
     e2 \in {Entry(c, k, v) : c \in ParseColumns, k \in {c_eq, <<"g", "2">>},
                              v \in {NoValue, Value(s_x), Value(v_comma), Value(v_nothex)}}}
    \cup
  {[NoParams EXCEPT !.entries = <<e2, e1>>, !.qs = QueryStringOf(<<e2, e1>>)] :
     e1 \in ParseEntries,
     e2 \in {Entry(c, k, v) : c \in {s_name}, k \in {c_eq, <<"g", "2">>},
                              v \in {NoValue, Value(s_x), Value(v_comma)}}}

\* No CRUD request is served.
NoObject == [none |-> TRUE]

\* Nothing parsed yet. found: what filterRegEx returned; handed: the filter
\* maps as the mapper's loop holds them, the value unescaped.
NoParse == [done |-> FALSE, found |-> <<>>, handed |-> <<>>]

\* The tokens the identifier quoters are given: a name, bare or between
\* two quote characters of one kind, a table and a column written so with a
\* dot between them, and the two names with the dot between one pair of
\* quote characters.
QuoteNames == {s_id, s_name, TableA, TableB}

Wraps == {<<>>, <<BackQuote>>, <<"'">>, <<"\"">>}

Wrapped(w, name) == w \o name \o w

OnePartTokens == {Wrapped(w, n) : w \in Wraps, n \in QuoteNames}

TwoPartTokens ==
  {Wrapped(w1, t) \o <<".">> \o Wrapped(w2, c) :
     w1 \in Wraps, w2 \in Wraps, t \in {TableA, TableB}, c \in {s_id, s_name}}
    \cup {Wrapped(w, t \o <<".">> \o c) :
            w \in Wraps \ {<<>>}, t \in {TableA, TableB}, c \in {s_id, s_name}}

QuoteTokens == OnePartTokens \cup TwoPartTokens

\* Nothing quoted yet. once and twice: what quote gave for the token and
\* for its own result; sonce and stwice: the same of quoteSelect.
NoQuoted(t) ==
  [token |-> t, quoted |-> FALSE, once |-> <<>>, twice |-> <<>>,
   selected |-> FALSE, sonce |-> <<>>, stwice |-> <<>>]

\* Nothing rendered yet. ops: the calls made on the Query so far.
NoOut ==
  [ops |-> 0, panic |-> FALSE, hasCount |-> FALSE, count |-> <<>>, countWhere |-> <<>>,
   hasData |-> FALSE, data |-> <<>>, dataWhere |-> <<>>]

(***************************************************************************)
(* Specifications.                                                         *)
(***************************************************************************)
vars == <<graph, walk, req, view, fres, builder, out, parsed, object>>

\* The walker on every graph of the bound.
WalkInit ==
  /\ graph \in Graphs
  /\ object = NoObject
  /\ walk = WalkStart(<<>>, RootTable)
  /\ req = NoParams
  /\ view = NoView
  /\ fres = NoResult
  /\ builder = NewQuery
  /\ out = NoOut
  /\ parsed = NoParse

WalkVisit ==
  /\ WalkKind(walk, graph) = "visit"
  /\ walk' = WalkStep(walk, graph)
  /\ UNCHANGED <<object, graph, req, view, fres, builder, out, parsed>>

WalkSkip ==
  /\ WalkKind(walk, graph) = "skip"
  /\ walk' = WalkStep(walk, graph)
  /\ UNCHANGED <<object, graph, req, view, fres, builder, out, parsed>>

WalkInnerSkip ==
  /\ WalkKind(walk, graph) = "innerskip"
  /\ walk' = WalkStep(walk, graph)
  /\ UNCHANGED <<object, graph, req, view, fres, builder, out, parsed>>

WalkCall ==
  /\ WalkKind(walk, graph) = "call"
  /\ Len(walk.stack) < MaxStack
  /\ walk' = WalkStep(walk, graph)
  /\ UNCHANGED <<object, graph, req, view, fres, builder, out, parsed>>

WalkEndInner ==
  /\ WalkKind(walk, graph) = "next"
  /\ walk' = WalkStep(walk, graph)
  /\ UNCHANGED <<object, graph, req, view, fres, builder, out, parsed>>

WalkReturn ==
  /\ WalkKind(walk, graph) = "return"
  /\ walk' = WalkStep(walk, graph)
  /\ UNCHANGED <<object, graph, req, view, fres, builder, out, parsed>>

WalkNext ==
  \/ WalkVisit
  \/ WalkSkip
  \/ WalkInnerSkip
  \/ WalkCall
  \/ WalkEndInner
  \/ WalkReturn

WalkSpec == WalkInit /\ [][WalkNext]_vars

\* getAssociations is a sequential function: once called, it runs on.
WalkFairSpec == WalkSpec /\ WF_vars(WalkNext)

\* The rest handlers, each run once on a request.
FilterInit ==
  /\ graph = EntityGraph
  /\ object = NoObject
  /\ walk = WalkIdle
  /\ \E c \in Calls : req = c.req /\ view = c.view
  /\ fres = NoResult
  /\ builder = NewQuery
  /\ out = NoOut
  /\ parsed = NoParse

CallApplyFilters ==
  /\ fres.handler = "none"
  /\ fres' = ApplyFilters(req, NewDB, graph)
  /\ UNCHANGED <<object, graph, walk, req, view, builder, out, parsed>>

CallFindByPrimaryKey ==
  /\ fres.handler = "none"
  /\ \E exists \in BOOLEAN : fres' = FindByPrimaryKey(req, graph, exists)
  /\ UNCHANGED <<object, graph, walk, req, view, builder, out, parsed>>

CallGetData ==
  /\ fres.handler = "none"
  /\ view.registered
  /\ \E offset \in PageOffsets, store \in Stores :
       fres' = GetData(view, offset, PageSize, req, graph, store)
  /\ UNCHANGED <<object, graph, walk, req, view, builder, out, parsed>>

CallFilterViewHandler ==
  /\ fres.handler = "none"
  /\ \E store \in Stores, allowed \in BOOLEAN :
       fres' = FilterViewHandler(view, req, graph, store, allowed)
  /\ UNCHANGED <<object, graph, walk, req, view, builder, out, parsed>>

FilterNext ==
  \/ CallApplyFilters
  \/ CallFindByPrimaryKey
  \/ CallGetData
  \/ CallFilterViewHandler

FilterSpec == FilterInit /\ [][FilterNext]_vars

\* The query builder: calls on one Query, in any order.
QueryInit ==
  /\ graph \in {EntityGraph, MakeGraph(<<>>, <<>>, <<>>)}
  /\ object = NoObject
  /\ walk = WalkIdle
  /\ req = NoParams
  /\ view = NoView
  /\ fres = NoResult
  /\ builder = NewQuery
  /\ out = NoOut
  /\ parsed = NoParse

CanCall == out.ops < MaxOps /\ ~out.panic

Called == [NoOut EXCEPT !.ops = out.ops + 1]

CallSelect ==
  /\ CanCall
  /\ \E column \in SelectColumns, as \in SelectAs :
       builder' = QuerySelect(builder, column, as, graph)
  /\ out' = Called
  /\ UNCHANGED <<object, graph, walk, req, view, fres, parsed>>

CallFrom ==
  /\ CanCall
  /\ \E s \in FromTables : builder' = QueryFrom(builder, s, graph)
  /\ out' = Called
  /\ UNCHANGED <<object, graph, walk, req, view, fres, parsed>>

CallWhere ==
  /\ CanCall
  /\ \E s \in WhereFragments : builder' = QueryWhere(builder, s)
  /\ out' = Called
  /\ UNCHANGED <<object, graph, walk, req, view, fres, parsed>>

CallGroupBy ==
  /\ CanCall
  /\ \E s \in GroupBys : builder' = QueryGroupBy(builder, s)
  /\ out' = Called
  /\ UNCHANGED <<object, graph, walk, req, view, fres, parsed>>

CallOrder ==
  /\ CanCall
  /\ \E s \in OrderSpecs : builder' = QueryOrder(builder, s)
  /\ out' = Called
  /\ UNCHANGED <<object, graph, walk, req, view, fres, parsed>>

CallOffset ==
  /\ CanCall
  /\ \E s \in OffsetSpecs : builder' = QueryOffset(builder, s)
  /\ out' = Called
  /\ UNCHANGED <<object, graph, walk, req, view, fres, parsed>>

CallLimit ==
  /\ CanCall
  /\ \E s \in LimitSpecs : builder' = QueryLimit(builder, s)
  /\ out' = Called
  /\ UNCHANGED <<object, graph, walk, req, view, fres, parsed>>

CallRaw ==
  /\ CanCall
  /\ \E s \in RawStatements : builder' = QueryRaw(builder, s)
  /\ out' = Called
  /\ UNCHANGED <<object, graph, walk, req, view, fres, parsed>>

\* The renderers: the statement is kept until the next call that is not a
\* renderer, so that out holds what one Query gave to both.
CountRendered(r) ==
  [out EXCEPT !.ops = @ + 1, !.panic = r.panic, !.hasCount = ~r.panic, !.count = r.sql,
              !.countWhere = r.where]

DataRendered(r) ==
  [out EXCEPT !.ops = @ + 1, !.panic = r.panic, !.hasData = ~r.panic, !.data = r.sql,
              !.dataWhere = r.where]

CallGetCountQuery ==
  /\ CanCall
  /\ builder' = GetCountQuery(builder, graph).q
  /\ out' = CountRendered(GetCountQuery(builder, graph))
  /\ UNCHANGED <<object, graph, walk, req, view, fres, parsed>>

CallGetQuery ==
  /\ CanCall
  /\ builder' = GetQuery(builder, graph).q
  /\ out' = DataRendered(GetQuery(builder, graph))
  /\ UNCHANGED <<object, graph, walk, req, view, fres, parsed>>

QueryNext ==
  \/ CallSelect
  \/ CallFrom
  \/ CallWhere
  \/ CallGroupBy
  \/ CallOrder
  \/ CallOffset
  \/ CallLimit
  \/ CallRaw
  \/ CallGetCountQuery
  \/ CallGetQuery

QuerySpec == QueryInit /\ [][QueryNext]_vars

\* The calls that fill the select list and the from list, on their own.
SelectNext ==
  \/ CallSelect
  \/ CallFrom

SelectSpec == QueryInit /\ [][SelectNext]_vars

\* The parser: filterRegEx on the filter string, and the unescaping the
\* mapper does on each map before anything else (line 792).
ParseInit ==
  /\ graph = EntityGraph
  /\ object = NoObject
  /\ walk = WalkIdle
  /\ req \in ParseRequests
  /\ view = NoView
  /\ fres = NoResult
  /\ builder = NewQuery
  /\ out = NoOut
  /\ parsed = NoParse

CallFilterRegEx ==
  /\ ~parsed.done
  /\ parsed' = [done |-> TRUE,
                found |-> filterRegEx(req.qs),
                handed |-> [i \in 1..Len(filterRegEx(req.qs)) |->
                              UnescapedFilter(filterRegEx(req.qs)[i])]]
  /\ UNCHANGED <<object, graph, walk, req, view, fres, builder, out>>

ParseNext ==
  \/ CallFilterRegEx

ParseSpec == ParseInit /\ [][ParseNext]_vars

\* The objects of the CRUD requests, and the filters of those requests: none,
\* one the mapper accepts, one on an unknown column and one with an unknown
\* condition.
HookOutcomes == {"absent", "ok", "fail"}

Objects ==
  [none : {FALSE}, perm : {"ok", "anonymous", "denied"}, body : BOOLEAN,
   before : HookOutcomes, validate : HookOutcomes, after : HookOutcomes,
   store : BOOLEAN, exists : BOOLEAN, soft : BOOLEAN]

CrudRequests ==
  {[NoParams EXCEPT !.entries = es, !.qs = QueryStringOf(es)] :
     es \in {<<>>, <<Entry(s_name, c_eq, Value(s_x))>>, <<Entry(s_foo, c_eq, Value(s_x))>>,
             <<Entry(s_name, c_like, Value(s_x))>>}}

\* The CRUD handlers, each run once on a request and an object.
CrudInit ==
  /\ graph = EntityGraph
  /\ object \in Objects
  /\ walk = WalkIdle
  /\ req \in CrudRequests
  /\ view = NoView
  /\ fres = NoResult
  /\ builder = NewQuery
  /\ out = NoOut
  /\ parsed = NoParse

CallCreate ==
  /\ fres.handler = "none"
  /\ fres' = Create(object)
  /\ UNCHANGED <<object, graph, walk, req, view, builder, out, parsed>>

CallUpdate ==
  /\ fres.handler = "none"
  /\ fres' = Update(object, FindByPrimaryKey(req, graph, object.exists))
  /\ UNCHANGED <<object, graph, walk, req, view, builder, out, parsed>>

CallDelete ==
  /\ fres.handler = "none"
  /\ fres' = Delete(object, FindByPrimaryKey(req, graph, object.exists))
  /\ UNCHANGED <<object, graph, walk, req, view, builder, out, parsed>>

CallGet ==
  /\ fres.handler = "none"
  /\ fres' = Get(object, FindByPrimaryKey(req, graph, object.exists))
  /\ UNCHANGED <<object, graph, walk, req, view, builder, out, parsed>>

CrudNext ==
  \/ CallCreate
  \/ CallUpdate
  \/ CallDelete
  \/ CallGet

CrudSpec == CrudInit /\ [][CrudNext]_vars

\* The identifier quoters, each run on a token and then on what it gave.
QuoteInit ==
  /\ graph = EntityGraph
  /\ object = NoObject
  /\ walk = WalkIdle
  /\ req = NoParams
  /\ view = NoView
  /\ fres = NoResult
  /\ builder = NewQuery
  /\ out = NoOut
  /\ \E t \in QuoteTokens : parsed = NoQuoted(t)

CallQuote ==
  /\ ~parsed.quoted
  /\ parsed' = [parsed EXCEPT !.quoted = TRUE, !.once = quote(parsed.token),
                              !.twice = quote(quote(parsed.token))]
  /\ UNCHANGED <<object, graph, walk, req, view, fres, builder, out>>

CallQuoteSelect ==
  /\ ~parsed.selected
  /\ parsed' = [parsed EXCEPT
                  !.selected = TRUE,
                  !.sonce = quoteSelect(builder, parsed.token, graph).s,
                  !.stwice = quoteSelect(quoteSelect(builder, parsed.token, graph).q,
                                         quoteSelect(builder, parsed.token, graph).s, graph).s]
  /\ builder' = quoteSelect(quoteSelect(builder, parsed.token, graph).q,
                            quoteSelect(builder, parsed.token, graph).s, graph).q
  /\ UNCHANGED <<object, graph, walk, req, view, fres, out>>

QuoteNext ==
  \/ CallQuote
  \/ CallQuoteSelect

QuoteSpec == QuoteInit /\ [][QuoteNext]_vars

(***************************************************************************)
(* Properties.                                                             *)
(***************************************************************************)
\* The entries of the request, as its client wrote them.
Entries == req.entries

\* The words the filter vocabulary is made of.
Vocabulary ==
  {c_eq, c_neq, c_gt, c_lt, c_gte, c_lte, c_in, c_contains, c_isnull, c_notnull}

\* The columns of the entity, and those whose field has no custom filter.
KnownColumns == {s_id, s_name, s_deleted_at, s_tag}

PlainColumns == {s_id, s_name, s_deleted_at}

\* The i-th entry is one the mapper comes to: every entry before it is on a
\* plain column with a word of the vocabulary.
Reached(i) ==
  /\ i \in 1..Len(Entries)
  /\ \A j \in 1..(i - 1) :
       Entries[j].column \in PlainColumns /\ Entries[j].condition \in Vocabulary

\* A filter handler has run.
Mapped == fres.handler \in {"ApplyFilters", "FindByPrimaryKey"}

HasPrefix(str, pre) ==
  Len(str) >= Len(pre) /\ \A k \in 1..Len(pre) : str[k] = pre[k]

Quoted(column) == <<BackQuote>> \o column \o <<BackQuote>>

\* C1: when one Query without a raw statement has given both statements, the
\* condition after WHERE of the count statement is the condition after WHERE
\* of the data statement, character for character.
C1_WhereIdentical ==
  (out.hasCount /\ out.hasData /\ builder.raw = <<>>) => out.countWhere = out.dataWhere

\* C2: getAssociations terminates on every relationship graph, graphs with
\* a 2-cycle and self-referencing schemas among them: every walk comes to its
\* end, where it has returned its list of preload paths.
C2_WalkTerminates == <>(walk.done /\ Len(walk.stack) = 0)

\* A walk that has ended on a graph where A and B refer to each other and A
\* refers to itself, with paths returned.
C2_CycleWalked ==
  /\ walk.done
  /\ Len(walk.ret) >= 2
  /\ Related(graph, TableA, TableA)
  /\ \E i \in 1..Len(Relations(graph[TableA])) : Relations(graph[TableA])[i].FieldSchema = TableB
  /\ \E i \in 1..Len(Relations(graph[TableB])) : Relations(graph[TableB])[i].FieldSchema = TableA

\* C3: when an entry of the filter names a column that is no field of the
\* schema, ApplyFilters and FindByPrimaryKey return the column-does-not-exist
\* error as a value, whatever offset, limit and join are, and run no query.
C3_UnknownColumnIsAnError ==
  (Mapped /\ \E i \in 1..Len(Entries) : Entries[i].column \notin KnownColumns)
    => (~fres.panic /\ fres.err = ErrorColumnNotExist /\ ~fres.executed)

\* C4: when the mapper comes to an entry on a plain column whose condition
\* is no word of the vocabulary, it returns the error that names the
\* condition, and the query holds the fragments of the entries before it and
\* none for this one.
C4_UnknownConditionIsAnError ==
  Mapped =>
    \A i \in 1..Len(Entries) :
      (Reached(i) /\ Entries[i].column \in PlainColumns /\ Entries[i].condition \notin Vocabulary)
        => /\ ~fres.panic
           /\ fres.err = [nil |-> FALSE,
                          msg |-> <<"invalid filter condition ">> \o Entries[i].condition]
           /\ Len(fres.query.wheres)
                = (i - 1) + (IF fres.handler = "FindByPrimaryKey" THEN 1 ELSE 0)

\* name[eq]=x&name[like]=x has gone through ApplyFilters.
C4_UnknownConditionMet ==
  /\ fres.handler = "ApplyFilters"
  /\ Entries = <<Entry(s_name, c_eq, Value(s_x)), Entry(s_name, c_like, Value(s_x))>>
  /\ ~fres.err.nil
  /\ Len(fres.query.wheres) = 1

\* What each value of the parser's entries decodes to, written out by hand.
\* The two values with a malformed escape decode to nothing.
Malformed == {v_percent, v_nothex}

Decoded(v) ==
  CASE v = v_comma -> <<"a", ",", "b">>
    [] v = v_space -> <<"a", " ", "b">>
    [] v = v_twice -> <<"%", "4", "1">>
    [] v = v_lower -> <<"~">>
    [] OTHER -> v

\* The predicate an entry stands for.
PredicateOf(e) == [column |-> e.column, condition |-> e.condition, value |-> e.value]

LettersOnly(e) == \A k \in 1..Len(e.condition) : e.condition[k] \in Letter

FragmentOf(condition) ==
  CASE condition = c_eq -> <<" ", "=", " ?">>
    [] condition = c_neq -> <<" ", "!=", " ?">>
    [] condition = c_gt -> <<" ", ">", " ?">>
    [] condition = c_lt -> <<" ", "<", " ?">>
    [] condition = c_gte -> <<" ", ">=", " ?">>
    [] condition = c_lte -> <<" ", "<=", " ?">>
    [] condition = c_contains -> <<" ", "LIKE", " ?">>
    [] condition = c_in -> <<" IN (?)">>
    [] condition = c_isnull -> <<" ", "IS NULL">>
    [] condition = c_notnull -> <<" ", "IS NOT NULL">>

\* The elements of a value, by hand: a,b,c has three, the others one.
ElementsOf(v) == IF v = s_abc THEN << <<"a">>, <<"b">>, <<"c">> >> ELSE <<v>>

ParametersOf(e) ==
  IF e.condition \in {c_isnull, c_notnull} THEN <<>>
  ELSE IF e.condition = c_contains THEN <<StrArg(<<"%">> \o e.value \o <<"%">>)>>
  ELSE IF e.condition = c_in THEN <<SliceArg(ElementsOf(e.value))>>
  ELSE <<StrArg(e.value)>>

ExpectedWhere(e) ==
  [sql |-> Quoted(e.column) \o FragmentOf(e.condition), args |-> ParametersOf(e)]

\* C6: for every entry on a plain column with a word of the vocabulary that
\* the mapper comes to, the query the mapper returns holds, at the place of
\* the entry, the fragment listed for the word on the quoted column, with the
\* parameters listed: the value, %value%, the list of the value's elements
\* (three for a,b,c), or none for isnull and notnull.
C6_VocabularyFragments ==
  (Mapped /\ ~fres.panic /\ ~fres.query.nil) =>
    \A i \in 1..Len(Entries) :
      (Reached(i) /\ Entries[i].column \in PlainColumns /\ Entries[i].condition \in Vocabulary)
        => /\ Len(fres.query.wheres) >= i
           /\ fres.query.wheres[i] = ExpectedWhere(Entries[i])
           /\ (Len(Entries) = 1 /\ fres.handler = "ApplyFilters")
                => Len(fres.query.wheres) = 1

\* name[in]=a,b,c has gone through ApplyFilters: a list of three elements.
C6_InListOfThree ==
  /\ fres.handler = "ApplyFilters"
  /\ Entries = <<Entry(s_name, c_in, Value(s_abc))>>
  /\ Len(fres.query.wheres) = 1
  /\ Len(fres.query.wheres[1].args[1].list) = 3

\* C7: when the mapper comes to an entry on the column whose field has the
\* RestFilter method, RestFilter is called exactly once, with the query as
\* the entries before it left it and with the map of the entry; no error is
\* returned and no fragment of the vocabulary on that column is in the query.
C7_CustomFilterCalledOnce ==
  Mapped =>
    \A i \in 1..Len(Entries) :
      (Reached(i) /\ Entries[i].column = s_tag)
        => /\ ~fres.panic
           /\ fres.err.nil
           /\ Len(fres.calls) = 1
           /\ fres.calls[1].filter = PredicateOf(Entries[i])
           /\ fres.calls[1].query.wheres = [j \in 1..(i - 1) |-> ExpectedWhere(Entries[j])]
           /\ \A w \in 1..Len(fres.query.wheres) :
                ~HasPrefix(fres.query.wheres[w].sql, Quoted(s_tag))

\* name[eq]=x&tag[like]=x has gone through ApplyFilters.
C7_CustomFilterMet ==
  /\ fres.handler = "ApplyFilters"
  /\ Entries = <<Entry(s_name, c_eq, Value(s_x)), Entry(s_tag, c_like, Value(s_x))>>
  /\ Len(fres.calls) = 1
  /\ fres.err.nil

\* C8: when every entry of the filter is on a column of the schema with a
\* word of the vocabulary, the mapper takes up every entry in order, and each
\* ends as a fragment or as a call of the custom handler.
C8_EveryPredicateProcessed ==
  (Mapped /\ \A i \in 1..Len(Entries) :
               Entries[i].column \in KnownColumns /\ Entries[i].condition \in Vocabulary)
    => /\ Len(fres.trace) = Len(Entries)
       /\ \A i \in 1..Len(Entries) :
            /\ fres.trace[i].filter = PredicateOf(Entries[i])
            /\ fres.trace[i].how \in {"where", "rest"}

\* C9: when the mapper comes to an entry on deleted_at with isnull or
\* notnull, the query it returns is unscoped and holds the fragment
\* `deleted_at` IS NULL or `deleted_at` IS NOT NULL without a parameter, also
\* when the entry is written with an empty value.
C9_DeletedAtUnscoped ==
  (Mapped /\ ~fres.panic /\ ~fres.query.nil) =>
    \A i \in 1..Len(Entries) :
      (Reached(i) /\ Entries[i].column = s_deleted_at
         /\ Entries[i].condition \in {c_isnull, c_notnull})
        => /\ fres.query.unscoped
           /\ Len(fres.query.wheres) >= i
           /\ fres.query.wheres[i] =
                [sql |-> Quoted(s_deleted_at)
                           \o <<" ", IF Entries[i].condition = c_isnull THEN "IS NULL"
                                     ELSE "IS NOT NULL">>,
                 args |-> <<>>]

\* deleted_at[notnull]= has gone through ApplyFilters.
C9_EmptyValueMet ==
  /\ fres.handler = "ApplyFilters"
  /\ Entries = <<Entry(s_deleted_at, c_notnull, Value(<<>>))>>
  /\ fres.query.unscoped
  /\ Len(fres.query.wheres) = 1

\* Some token of the comma list fails the order pattern.
SomeTokenFails(order) ==
  \E i \in 1..Len(Split(order, ",")) : ~orderRegexMatch(Split(order, ",")[i])

\* C10: when a token of the order parameter of ApplyFilters, or of the sort
\* parameter of GetData, fails the order pattern, the query is given no
\* ordering at all.
C10_OrderAllOrNothing ==
  /\ (fres.handler = "ApplyFilters" /\ ~fres.panic /\ SomeTokenFails(req.order))
       => fres.query.orders = <<>>
  /\ (fres.handler = "GetData" /\ SomeTokenFails(req.sort))
       => fres.view.q._order = <<>>

\* order=name asc,??? has gone through ApplyFilters.
C10_SecondTokenMalformed ==
  /\ fres.handler = "ApplyFilters"
  /\ req.order = o_bad_second
  /\ ~fres.query.nil
  /\ fres.query.orders = <<>>

\* Some chunk of the comma list is one sortRegex finds nothing in.
SomeChunkUnmatched(s) ==
  \E i \in 1..Len(Split(s, ",")) : ~sortRegexFind(TrimSpace(Split(s, ",")[i])).ok

\* C11: a call of Order whose argument has a token that fails the sort
\* pattern leaves the order list of the Query as it was.
C11_QueryOrderAllOrNothing ==
  [][\A s \in OrderSpecs :
       (SomeChunkUnmatched(s) /\ builder' = QueryOrder(builder, s))
         => builder'._order = builder._order]_vars

\* The page parameters of the request, as numbers.
AskedOffset == RequestInt(req, s_offset)

AskedPage == RequestInt(req, s_page)

AskedSize == RequestInt(req, s_size)

\* FilterViewHandler has run on a view, with permission.
Handled ==
  /\ fres.handler = "FilterViewHandler"
  /\ view.registered
  /\ fres.err.nil \/ fres.response.called \/ fres.panic

\* C12: without an offset and with a page from 1 on, the handler calls
\* GetData with the page less one and with the offset that page has at the
\* page size GetData is given; with an offset and without a page, the page is
\* the offset divided by that size, rounded down.
C12_PageOffsetReconciled ==
  Handled =>
    /\ (AskedOffset = 0 /\ AskedPage >= 1) =>
         /\ fres.response.called
         /\ fres.response.Page = AskedPage - 1
         /\ fres.response.Offset = (AskedPage - 1) * fres.response.Size
    /\ (AskedOffset > 0 /\ AskedPage = 0) =>
         /\ fres.response.called
         /\ fres.response.Size > 0
         /\ fres.response.Page = fres.response.Offset \div fres.response.Size

\* C13: whatever the size parameter is, the size GetData is called with and
\* the Response reports is from 1 to 100: 25 for no size and for 0, 100 for a
\* size above 100, and the size itself from 1 to 100.
C13_SizeInRange ==
  (Handled /\ fres.response.called) =>
    /\ fres.response.Size \in 1..MaxSize
    /\ (AskedSize = 0) => fres.response.Size = DefaultSize
    /\ (AskedSize > MaxSize) => fres.response.Size = MaxSize
    /\ (AskedSize \in 1..MaxSize) => fres.response.Size = AskedSize

\* C14: once a raw statement that is not empty is set, each renderer returns
\* that statement, whatever the other calls on the Query were.
C14_RawVerbatim ==
  builder.raw # <<>> =>
    /\ ~out.panic
    /\ out.hasCount => out.count = builder.raw
    /\ out.hasData => out.data = builder.raw

\* C15: quoting is idempotent: on a bare name, a quoted name and a
\* table.column token, quote gives for its own result that result again, and
\* so does quoteSelect.
C15_QuotingIdempotent ==
  /\ parsed.quoted => parsed.twice = parsed.once
  /\ parsed.selected => parsed.stwice = parsed.sonce

\* What Select is given, as the claims read it: the text without the space
\* around it, whether it is a table.column token, and the table and the
\* column it names.
Expr(column) == TrimSpace(column)

Parenthesized(column) ==
  Len(Expr(column)) > 0 /\ Head(Expr(column)) = "(" /\ Expr(column)[Len(Expr(column))] = ")"

TwoPart(column) == ~Parenthesized(column) /\ Len(Split(Expr(column), ".")) = 2

TableOf(column) == Trim(Split(Expr(column), ".")[1], QuoteChars)

ColumnOf(column) == Trim(Split(Expr(column), ".")[2], QuoteChars)

\* The fragment Select keeps for a text with the optional alias.
Aliased(text, as) ==
  IF Len(as) > 0 THEN text \o s_AS \o Quoted(as[1]) ELSE text

\* What a list holds, as a set.
Range(list) == {list[i] : i \in 1..Len(list)}

\* C16: Select on a table.column token outside parentheses keeps the two
\* parts quoted one by one with a dot between them and has the table in the
\* from list afterwards; on any other text it leaves the from list and the
\* joined schemas as they were, and a text between parentheses, with a dot
\* or without, is kept in the select list as it is.
C16_SelectExtendsFrom ==
  [][\A column \in SelectColumns, as \in SelectAs :
       builder' = QuerySelect(builder, column, as, graph) =>
         /\ TwoPart(column) =>
              /\ Aliased(Quoted(TableOf(column)) \o <<".">> \o Quoted(ColumnOf(column)), as)
                   \in Range(builder'._select)
              /\ Quoted(TableOf(column)) \in Range(builder'._from)
              /\ Range(builder'._from) = Range(builder._from) \cup {Quoted(TableOf(column))}
         /\ ~TwoPart(column) =>
              /\ builder'._from = builder._from
              /\ builder'._joins = builder._joins
         /\ Parenthesized(column) => Aliased(Expr(column), as) \in Range(builder'._select)]_vars

\* Select has been given (A.id) and B.name on a new Query: the text between
\* parentheses is in the select list, and only B is in the from list.
C16_ExpressionAndToken ==
  /\ out.ops = 2
  /\ Range(builder._select) =
       {<<"(", "A", ".", "i", "d", ")">>, Quoted(TableB) \o <<".">> \o Quoted(s_name)}
  /\ builder._from = <<Quoted(TableB)>>
  /\ builder._joins = <<TableB>>

\* No entry of the list is there twice.
NoRepeat(list) == \A i, j \in 1..Len(list) : list[i] = list[j] => i = j

\* The table names of the from list that schema.Find knows, in the order of
\* the list.
KnownOf(from) ==
  SelectSeq([i \in 1..Len(from) |-> Trim(from[i], QuoteChars)], LAMBDA t : Find(graph, t))

\* C17: whatever calls were made, the select list holds no fragment twice,
\* the from list holds no quoted table twice, and the joined schemas are the
\* tables of the from list that resolve to a schema, one entry each, in the
\* order the tables came in.
C17_ListsDeduplicated ==
  /\ NoRepeat(builder._select)
  /\ NoRepeat(builder._from)
  /\ builder._joins = KnownOf(builder._from)

\* Four calls of Select and From, and no other call, have left one fragment,
\* two tables and one joined schema: a table was given more than once, and a
\* table no schema is registered for is in the from list.
C17_RepeatedCalls ==
  /\ out.ops = 4
  /\ builder._where = <<>> /\ builder._groupBy = <<>> /\ builder._order = <<>>
  /\ builder._limit = <<>> /\ builder._offset = <<>> /\ builder.raw = <<>>
  /\ Len(builder._select) = 1
  /\ Len(builder._from) = 2
  /\ Len(builder._joins) = 1

\* The relationships the root declares as has-one, belongs-to or has-many.
RootRelations == WalkRelations(graph, RootTable)

\* C18: getAssociations called on the root with an empty prefix returns
\* the field name of every has-one, belongs-to and has-many relationship of
\* the root, however many there are.
C18_EveryRootRelationReturned ==
  walk.done =>
    \A i \in 1..Len(RootRelations) : RootRelations[i].Name \in Range(walk.ret)

\* How many relation segments a preload path has.
Segments(path) == Len(Split(path, "."))

\* The paths a walk holds: those it has returned and those its calls have
\* gathered so far.
WalkPaths ==
  Range(walk.ret) \cup UNION {Range(walk.stack[n].preload) : n \in 1..Len(walk.stack)}

\* C19: on every graph, every preload path of getAssociations has at most
\* 4 relation segments.
C19_PathsAtMostFour == \A path \in WalkPaths : Segments(path) <= DepthGuard

\* A walk has ended and has returned a path of 4 segments.
C19_FourSegmentsReturned ==
  /\ walk.done
  /\ \E path \in Range(walk.ret) : Segments(path) = DepthGuard

\* The tables on the path from the root to the schema the top call walks:
\* the table the walk began with, then one entry for every call that is
\* waiting on a relationship it took.
PathChain(w) == <<w.stack[1].s>> \o [n \in 1..(Len(w.stack) - 1) |-> w.stack[n].s]

\* C20: when getAssociations tests its guards for a relationship, the chain
\* it tests holds the tables on the path from the root to the schema it is
\* walking and nothing else: nothing of a sibling relationship or its subtree.
C20_ChainIsThePath ==
  WalkKind(walk, graph) \in {"visit", "skip"} =>
    Split(walk.loaded, ".") = PathChain(walk)

\* The associations parameter is a list of the client's own.
ExplicitAssociations ==
  req.associations # <<>> /\ req.associations \notin {s_one, s_true, s_deep}

\* C21: an associations parameter that is none of 1, true and deep gives
\* one preload, the first path of the comma list that is not empty, each of
\* its segments in title case, in ApplyFilters and in FindByPrimaryKey.
C21_OnePreloadForTheList ==
  (Mapped /\ ~fres.panic /\ ~fres.query.nil /\ ExplicitAssociations /\ req.join = <<>>)
    => fres.query.preloads = <<relationsMapper(req.associations)>>

\* The token is, from its first character to its last, optional white
\* space, one identifier, white space, asc or desc in any letter case, and
\* optional white space.
WholeOrderToken(item) ==
  LET b == RunEnd(item, 1, Space)
      e == RunEnd(item, b, ColChar)
      d == RunEnd(item, e, Space)
  IN  /\ e > b
      /\ d > e
      /\ \/ HasWordAt(item, d, s_asc) /\ RunEnd(item, d + 3, Space) > Len(item)
         \/ HasWordAt(item, d, s_desc) /\ RunEnd(item, d + 4, Space) > Len(item)

EveryTokenWhole(order) ==
  \A i \in 1..Len(Split(order, ",")) : WholeOrderToken(Split(order, ",")[i])

\* C22: an order or sort value gives the query an ordering only if every
\* token of its comma list is an order token from end to end; a token that
\* holds an order token beside other characters gives no ordering.
C22_OrderTokensWhole ==
  /\ (fres.handler = "ApplyFilters" /\ ~fres.panic /\ fres.query.orders # <<>>)
       => EveryTokenWhole(req.order)
  /\ (fres.handler = "GetData" /\ fres.view.q._order # <<>>)
       => EveryTokenWhole(req.sort)

\* GetData has run its two statements, called by itself or by the handler.
Listed == fres.handler \in {"GetData", "FilterViewHandler"} /\ fres.executed

\* The rows the database answered with: the store is known by its total.
AnsweredRows == (CHOOSE store \in Stores : store.total = fres.view.total).rows

\* The cell of the claim before any anchor: the actions of the column with
\* Href and OnClick rendered from the row, else the processor applied to the
\* row, else the row value of DBField as a string.
CellValue(column, row) ==
  IF Len(column.Actions) > 0
  THEN [kind |-> "buttons",
        buttons |-> [n \in 1..Len(column.Actions) |->
                       [column.Actions[n] EXCEPT !.Href = Render(@, row),
                                                 !.OnClick = Render(@, row)]]]
  ELSE IF column.Processor THEN [kind |-> "processed", v |-> Processed(row)]
  ELSE [kind |-> "text", v |-> RowValue(row, column.DBField)]

Anchor(column, row, value) ==
  [kind |-> "link", href |-> Render(column.Href, row), text |-> value]

\* C23 as stated: every column that declares an href template has its cell
\* wrapped in an anchor, a column with actions too.
C23_CellPrecedence ==
  Listed =>
    /\ Len(fres.view.result) = Len(AnsweredRows)
    /\ \A j \in 1..Len(fres.view.result) :
         /\ Len(fres.view.result[j]) = Len(view.Columns)
         /\ \A i \in 1..Len(view.Columns) :
              fres.view.result[j][i] =
                IF view.Columns[i].Href # <<>>
                THEN Anchor(view.Columns[i], AnsweredRows[j],
                            CellValue(view.Columns[i], AnsweredRows[j]))
                ELSE CellValue(view.Columns[i], AnsweredRows[j])

\* C23: each row of the list has one cell for each column, in column
\* order; the cell is the rendered actions of the column, else the processor
\* applied to the row, else the row value as a string; and the cell of a
\* column without actions that declares an href template is wrapped in an
\* anchor, while the actions of a column are never wrapped.
C23_CellPrecedenceOfPlainColumns ==
  Listed =>
    /\ Len(fres.view.result) = Len(AnsweredRows)
    /\ \A j \in 1..Len(fres.view.result) :
         /\ Len(fres.view.result[j]) = Len(view.Columns)
         /\ \A i \in 1..Len(view.Columns) :
              fres.view.result[j][i] =
                IF view.Columns[i].Href # <<>> /\ Len(view.Columns[i].Actions) = 0
                THEN Anchor(view.Columns[i], AnsweredRows[j],
                            CellValue(view.Columns[i], AnsweredRows[j]))
                ELSE CellValue(view.Columns[i], AnsweredRows[j])

\* GetData has listed two rows of the view whose columns all declare an
\* href template, a column with an action and a processor among them.
C23_LinkedViewListed ==
  /\ fres.handler = "GetData"
  /\ fres.executed
  /\ view = ViewLinked
  /\ Len(fres.view.result) = 2
  /\ fres.view.result[1][2].kind = "buttons"
  /\ fres.view.result[1][1].kind = "link"

(***************************************************************************)
(* C24, C25: the CRUD handlers.                                            *)
(***************************************************************************)
\* The lookup of the handler that ran, as FindByPrimaryKey gave it.
Looked == FindByPrimaryKey(req, graph, object.exists)

\* Get, Update or Delete reached its lookup, the query ran and touched no row.
ZeroRows ==
  /\ fres.handler \in {"Get", "Update", "Delete"}
  /\ "FindByPrimaryKey" \in Range(fres.steps)
  /\ Looked.executed
  /\ ~Looked.found

\* The lookup was the last step: nothing of the body, the hooks that follow
\* the lookup or the store ran.
StoppedAtLookup ==
  /\ fres.steps[Len(fres.steps)] = "FindByPrimaryKey"
  /\ Range(fres.steps) \subseteq {"HasPerm", "BeforeGet", "FindByPrimaryKey"}
  /\ ~fres.data

CreateOrder ==
  <<"HasPerm", "BodyParser", "BeforeCreate", "ValidateCreate", "dbo.Create", "AfterCreate">>

CreateOutcome ==
  <<IF object.perm = "ok" THEN "ok" ELSE "fail",
    IF object.body THEN "ok" ELSE "fail",
    object.before, object.validate,
    IF object.store THEN "ok" ELSE "fail",
    object.after>>

\* The error each step returns when it fails.
CreateError ==
  [i \in 1..6 |->
     IF i > 1 THEN ErrorOf(CreateOrder[i])
     ELSE IF object.perm = "anonymous" THEN ErrorUnauthorized ELSE ErrorPermissionDenied]

\* The first step of Create that returns an error, 7 if none does.
FirstFailure ==
  IF \E i \in 1..6 : CreateOutcome[i] = "fail"
  THEN CHOOSE i \in 1..6 : /\ CreateOutcome[i] = "fail"
                           /\ \A j \in 1..(i - 1) : CreateOutcome[j] # "fail"
  ELSE 7

\* C25: Create runs permission check, body parse, BeforeCreate, ValidateCreate,
\* store create and AfterCreate in that order; the first step that returns an
\* error ends the handler with that error and nothing after it runs, so the
\* store create never follows a failed BeforeCreate or ValidateCreate; the
\* response data is set exactly when every step succeeded.
C25_CreateInOrder ==
  fres.handler = "Create" =>
    /\ ~fres.panic
    /\ fres.steps = SelectSeq(SubSeq(CreateOrder, 1, IF FirstFailure = 7 THEN 6 ELSE FirstFailure),
                              LAMBDA s : \E i \in 1..6 : CreateOrder[i] = s /\ CreateOutcome[i] # "absent")
    /\ fres.err = (IF FirstFailure = 7 THEN NilErr ELSE CreateError[FirstFailure])
    /\ fres.data <=> FirstFailure = 7
    /\ (object.before = "fail" \/ object.validate = "fail") => "dbo.Create" \notin Range(fres.steps)

\* A Create whose ValidateCreate refuses an object the store would take.
C25_ValidateRefused ==
  /\ fres.handler = "Create"
  /\ object.perm = "ok" /\ object.body /\ object.before = "ok" /\ object.store
  /\ object.validate = "fail"
  /\ fres.steps = <<"HasPerm", "BodyParser", "BeforeCreate", "ValidateCreate">>
  /\ fres.err = ErrorOf("ValidateCreate")
  /\ ~fres.data

(***************************************************************************)
(* C26, C28: what rendering does to the Query.                             *)
(***************************************************************************)
\* C26: rendering is read-only: a call of GetCountQuery or GetQuery leaves the
\* Query as it was, and a renderer called again on it, after any number of
\* renderings in any order, returns the string it returned before.
C26_RenderingReadOnly ==
  [][(CallGetCountQuery \/ CallGetQuery) =>
        /\ builder' = builder
        /\ (out.hasCount /\ out'.hasCount) => out'.count = out.count
        /\ (out.hasData /\ out'.hasData) => out'.data = out.data]_vars

\* C28: the renderers return a statement for every Query, one whose from list
\* is empty or names no registered schema included: with fewer than two joined
\* schemas the rendering does not fail and adds no join predicate.
C28_RenderersAlwaysAnswer ==
  [][(CallGetCountQuery \/ CallGetQuery) =>
        /\ ~out'.panic
        /\ Len(builder._joins) < 2 => builder'._where = builder._where]_vars

(***************************************************************************)
(* C27, C29: the arithmetic of FilterViewHandler.                          *)
(***************************************************************************)
\* C27: the reconciliation of offset, page and size ends without an
\* arithmetic fault for every offset, page and size, so that GetData is
\* called; an offset above 0 with page 0 and no size gives the size 25.
C27_ReconciliationCompletes ==
  Handled =>
    /\ fres.response.called
    /\ (AskedOffset > 0 /\ AskedPage = 0 /\ AskedSize = 0) => fres.response.Size = DefaultSize

\* FilterViewHandler has returned without an error, with a size above 0.
Answered == Handled /\ fres.response.called /\ ~fres.panic /\ fres.err.nil /\ fres.response.Size > 0

\* C29: after a successful FilterViewHandler, TotalPages is the least number
\* of pages of Size rows that holds Total rows: for a Total above 0,
\* (TotalPages - 1) * Size < Total <= TotalPages * Size, so a Total that is a
\* multiple of Size gives Total / Size pages.
C29_TotalPagesIsCeiling ==
  (Answered /\ fres.response.Total > 0) =>
    /\ (fres.response.TotalPages - 1) * fres.response.Size < fres.response.Total
    /\ fres.response.Total <= fres.response.TotalPages * fres.response.Size

(***************************************************************************)
(* C30: the sort of a list.                                                *)
(***************************************************************************)
\* The tokens of the sort parameter of the request.
SortTokens == Split(req.sort, ",")

\* The ORDER BY entry of a token written `column direction`.
SortEntry(token) ==
  LET words == Split(TrimSpace(token), " ")
  IN  quote(words[1]) \o <<" ">> \o words[Len(words)]

\* C30: in GetData, a sort value every token of which passes the validation
\* gives the data statement an ORDER BY clause with one entry for each token,
\* in the order of the tokens: the quoted column, then the direction.
C30_ValidSortIsOrdered ==
  (Listed /\ req.sort # <<>> /\ OrderValid(req.sort)) =>
    /\ Len(fres.view.q._order) = Len(SortTokens)
    /\ \A i \in 1..Len(SortTokens) :
         i <= Len(fres.view.q._order) => fres.view.q._order[i] = SortEntry(SortTokens[i])

=============================================================================
